---- MODULE Spec2Model ----
(***************************************************************************)
(* Course catalogue backend: CSV ingestion (routes/courses.js, POST        *)
(* /upload), the cache-aside read endpoints (routes/courses.js,            *)
(* routes/recommendations.js) and the cache client (utils/redis.js).       *)
(*                                                                         *)
(* Every await of a handler is a step boundary: between two steps of one *)
(* request any other request, a cache connection event or the clock may    *)
(* act.  Code that runs synchronously after an await belongs to the same   *)
(* step.                                                                   *)
(***************************************************************************)
EXTENDS Integers, Sequences, FiniteSets, TLC

VARIABLES
  db,          \* the Course collection, in insertion order
  now,         \* Date.now()
  cache,       \* the keys held by the redis server: key -> serialized value
  isConnected, \* RedisClient.isConnected
  up,          \* per upload request: the handler's locals and position
  rd,          \* per read request: the handler's locals and position
  nUploads,    \* upload requests issued so far
  nReads,      \* read requests issued so far
  probe,       \* the last direct call of a cache operation and what it returned
  hist,        \* history kept for the properties; no handler reads it
  client       \* the browser's ApiClient: its token and its calls in flight

vars == <<db, now, cache, isConnected, up, rd, nUploads, nReads, probe, hist, client>>

----------------------------------------------------------------------------
(* Bounds of the model *)

MaxRows == 2        \* rows per uploaded file (SpecSingle, SpecUpload)
MaxClock == 1       \* the clock takes the values 0..MaxClock
MaxUploads == 2     \* upload requests per behaviour (SpecSingle, SpecUpload)
MaxLongRows == 11   \* rows per uploaded file in SpecSummary
MaxReads == 2       \* read requests per behaviour (Spec)
MaxIngests == 1     \* upload requests per behaviour (Spec)

Uploaders == {"u1", "u2"}
Readers == {"r1", "r2"}

----------------------------------------------------------------------------
(* JavaScript values *)

Undefined == "<undefined>"
NaN == -2
UndefinedNum == -1

\* a string in a boolean context
Truthy(s) == s /= Undefined /\ s /= ""
\* a || b on strings
Or(a, b) == IF Truthy(a) THEN a ELSE b
\* a || b on numbers: NaN and 0 are falsy
OrNum(a, b) == IF a /= NaN /\ a /= 0 THEN a ELSE b

NumLit == [s \in {"0", "1", "2", "5", "20", "100", "101", "200"} |->
            CASE s = "0" -> 0 [] s = "1" -> 1 [] s = "2" -> 2 [] s = "5" -> 5 [] s = "20" -> 20
              [] s = "100" -> 100 [] s = "101" -> 101 [] s = "200" -> 200]

\* parseInt / parseFloat on the cell values that occur: a numeral gives its
\* number, anything else (a word, the empty cell, an absent column) gives NaN
ParseNum(s) == IF s \in DOMAIN NumLit THEN NumLit[s] ELSE NaN

----------------------------------------------------------------------------
(* CSV rows: every cell is a string, an absent column is Undefined *)

BlankRow ==
  [uniqueId |-> Undefined, course_id |-> Undefined, courseName |-> Undefined,
   title |-> Undefined, courseLevel |-> Undefined, disciplineMajor |-> Undefined,
   specialization |-> Undefined, firstYearTuitionFee |-> Undefined,
   tuition |-> Undefined, ftRanking2024 |-> Undefined,
   acceptanceRate |-> Undefined, partnerCourse |-> Undefined]

RowAlgebra ==
  [BlankRow EXCEPT !.uniqueId = "c1", !.courseName = "Algebra",
     !.courseLevel = "Undergraduate", !.disciplineMajor = "Math",
     !.firstYearTuitionFee = "100", !.ftRanking2024 = "5",
     !.acceptanceRate = "20", !.partnerCourse = "true"]
\* the same uniqueId as RowAlgebra with other contents
RowCalculus ==
  [BlankRow EXCEPT !.uniqueId = "c1", !.title = "Calculus",
     !.courseLevel = "Postgraduate", !.disciplineMajor = "Math",
     !.specialization = "Pure", !.firstYearTuitionFee = "200"]
\* identified by course_id, level defaulted, tuition not a number
RowBiology ==
  [BlankRow EXCEPT !.course_id = "c2", !.courseName = "Biology",
     !.disciplineMajor = "Bio", !.firstYearTuitionFee = "n/a"]
\* no courseName, title or name: the required validator rejects it
RowNoName ==
  [BlankRow EXCEPT !.uniqueId = "c2", !.courseLevel = "Diploma",
     !.disciplineMajor = "Bio", !.firstYearTuitionFee = "100"]
\* a level outside the enum
RowBadLevel ==
  [BlankRow EXCEPT !.uniqueId = "c1", !.courseName = "Drawing",
     !.courseLevel = "Evening", !.disciplineMajor = "Art",
     !.firstYearTuitionFee = "100"]
\* neither uniqueId nor course_id: the id is generated
RowNoId ==
  [BlankRow EXCEPT !.courseName = "Ethics", !.courseLevel = "Certificate",
     !.disciplineMajor = "Phil", !.firstYearTuitionFee = "200"]
\* ranked behind RowAlgebra, not a partner course
RowArt ==
  [BlankRow EXCEPT !.uniqueId = "c3", !.courseName = "Art",
     !.courseLevel = "Diploma", !.disciplineMajor = "Art",
     !.firstYearTuitionFee = "100", !.ftRanking2024 = "20",
     !.acceptanceRate = "20"]


\* optional scores that are not numbers, and a partner flag that is not "true"
RowBadScore ==
  [BlankRow EXCEPT !.uniqueId = "c4", !.courseName = "Chemistry",
     !.courseLevel = "Diploma", !.disciplineMajor = "Chem",
     !.firstYearTuitionFee = "n/a", !.ftRanking2024 = "n/a",
     !.acceptanceRate = "high", !.partnerCourse = "TRUE"]

RowPool == {RowAlgebra, RowCalculus, RowBiology, RowNoName, RowBadLevel, RowNoId}

SeqsUpTo(S, n) == UNION {[1..k -> S] : k \in 0..n}

\* the files of SpecSingle
Files == SeqsUpTo(RowPool, MaxRows)
\* the files of SpecSummary: up to MaxLongRows rows of which a leading or a
\* trailing stretch fails validation
LongFiles ==
  {[i \in 1..n |-> IF i <= k THEN RowBadLevel ELSE RowAlgebra] :
     n \in 0..MaxLongRows, k \in 0..MaxLongRows}
  \cup {[i \in 1..n |-> IF i <= k THEN RowAlgebra ELSE RowBadLevel] :
          n \in 0..MaxLongRows, k \in 0..MaxLongRows}

----------------------------------------------------------------------------
(* Row -> courseData (POST /upload, the object literal) *)

GenId(t, n) == "course_" \o ToString(t) \o "_" \o ToString(n)

CourseLevels == {"Undergraduate", "Postgraduate", "Doctorate", "Diploma", "Certificate"}

CourseData(row, t, processedCount) ==
  [uniqueId |-> Or(row.uniqueId, Or(row.course_id, GenId(t, processedCount))),
   courseName |-> Or(row.courseName, row.title),
   courseLevel |-> Or(row.courseLevel, "Undergraduate"),
   disciplineMajor |-> row.disciplineMajor,
   specialization |-> row.specialization,
   firstYearTuitionFee |->
     OrNum(ParseNum(row.firstYearTuitionFee), OrNum(ParseNum(row.tuition), 0)),
   ftRanking2024 |->
     IF Truthy(row.ftRanking2024) THEN ParseNum(row.ftRanking2024) ELSE UndefinedNum,
   acceptanceRate |->
     IF Truthy(row.acceptanceRate) THEN ParseNum(row.acceptanceRate) ELSE UndefinedNum,
   partnerCourse |-> (row.partnerCourse = "true")]

----------------------------------------------------------------------------
(* The Course model (models/Course.js) as the document mapper applies it *)

NoError == "ok"

\* Document validation on save(): casts, required paths, the level enum
SaveError(d) ==
  IF NaN \in {d.firstYearTuitionFee, d.ftRanking2024, d.acceptanceRate}
    THEN "Cast to Number failed"
  ELSE IF ~Truthy(d.uniqueId) THEN "Path uniqueId is required."
  ELSE IF ~Truthy(d.courseName) THEN "Path courseName is required."
  ELSE IF ~Truthy(d.disciplineMajor) THEN "Path disciplineMajor is required."
  ELSE IF d.courseLevel \notin CourseLevels
    THEN "courseLevel is not a valid enum value"
  ELSE NoError

\* Update validation (runValidators: true): undefined keys are dropped from the
\* update, and validators run on the paths that remain
UpdateError(d) ==
  IF NaN \in {d.firstYearTuitionFee, d.ftRanking2024, d.acceptanceRate}
    THEN "Cast to Number failed"
  ELSE IF d.uniqueId = "" THEN "Path uniqueId is required."
  ELSE IF d.courseName = "" THEN "Path courseName is required."
  ELSE IF d.disciplineMajor = "" THEN "Path disciplineMajor is required."
  ELSE IF d.courseLevel \notin CourseLevels
    THEN "courseLevel is not a valid enum value"
  ELSE NoError

\* $set of the defined keys of d on the stored document old
Merge(old, d) ==
  [uniqueId |-> d.uniqueId,
   courseName |-> IF d.courseName = Undefined THEN old.courseName ELSE d.courseName,
   courseLevel |-> d.courseLevel,
   disciplineMajor |->
     IF d.disciplineMajor = Undefined THEN old.disciplineMajor ELSE d.disciplineMajor,
   specialization |->
     IF d.specialization = Undefined THEN old.specialization ELSE d.specialization,
   firstYearTuitionFee |-> d.firstYearTuitionFee,
   ftRanking2024 |->
     IF d.ftRanking2024 = UndefinedNum THEN old.ftRanking2024 ELSE d.ftRanking2024,
   acceptanceRate |->
     IF d.acceptanceRate = UndefinedNum THEN old.acceptanceRate ELSE d.acceptanceRate,
   partnerCourse |-> d.partnerCourse]

Exists(coll, id) == \E i \in 1..Len(coll) : coll[i].uniqueId = id

\* Course.findOne({uniqueId}): is there a document with this uniqueId
FindOne(coll, id) == Exists(coll, id)

FirstIndex(coll, id) ==
  CHOOSE i \in 1..Len(coll) :
    coll[i].uniqueId = id /\ \A j \in 1..(i - 1) : coll[j].uniqueId /= id

\* the update without runValidators: only the casts can fail
FindOneAndUpdateUnvalidated(coll, d) ==
  IF NaN \in {d.firstYearTuitionFee, d.ftRanking2024, d.acceptanceRate}
    THEN [error |-> "Cast to Number failed", coll |-> coll]
  ELSE IF ~Exists(coll, d.uniqueId) THEN [error |-> NoError, coll |-> coll]
  ELSE [error |-> NoError,
        coll |-> [coll EXCEPT ![FirstIndex(coll, d.uniqueId)] = Merge(@, d)]]

\* Course.findOneAndUpdate({uniqueId}, courseData, {runValidators: true}):
\* the first matching document is updated; no match updates nothing
FindOneAndUpdate(coll, d) ==
  IF UpdateError(d) /= NoError THEN [error |-> UpdateError(d), coll |-> coll]
  ELSE IF ~Exists(coll, d.uniqueId) THEN [error |-> NoError, coll |-> coll]
  ELSE [error |-> NoError,
        coll |-> [coll EXCEPT ![FirstIndex(coll, d.uniqueId)] = Merge(@, d)]]

\* the schema without unique: true
NoUniqueIndex(coll, id) == FALSE

\* the unique index on uniqueId (unique: true) rejects a second document
UniqueIndexRejects(coll, id) == Exists(coll, id)

\* new Course(courseData).save()
Save(coll, d) ==
  IF SaveError(d) /= NoError THEN [error |-> SaveError(d), coll |-> coll]
  ELSE IF UniqueIndexRejects(coll, d.uniqueId)
    THEN [error |-> "E11000 duplicate key error", coll |-> coll]
  ELSE [error |-> NoError, coll |-> Append(coll, d)]

----------------------------------------------------------------------------
(* The cache client (utils/redis.js).  A key is its namespace and the rest   *)
(* of the string; the value is the JSON text, modelled by the value it       *)
(* parses to.  A call of the backing client either takes effect or rejects   *)
(* (fails) without effect.                                                   *)

NoValue == [absent |-> TRUE]
NoProbe == [op |-> "none"]
NoEntries == [key \in {} |-> NoValue]

CoursesNs == "courses:"
RecommendationsNs == "recommendations:"
FixedNs == ""

CoursesKey(cacheKey) == [ns |-> CoursesNs, k |-> cacheKey]
RecommendationsKey(cacheKey) == [ns |-> RecommendationsNs, k |-> cacheKey]
FixedKey(name) == [ns |-> FixedNs, k |-> [name |-> name]]

\* client.keys('*')
ClientKeysAll(store, prefix) == DOMAIN store

\* client.keys(pattern) for a pattern "<prefix>*"
ClientKeys(store, prefix) == {key \in DOMAIN store : key.ns = prefix}

\* client.del(keys)
ClientDel(store, keys) == [key \in (DOMAIN store) \ keys |-> store[key]]

\* client.setEx(key, ttl, value)
ClientSetEx(store, key, value) ==
  [k \in (DOMAIN store) \cup {key} |-> IF k = key THEN value ELSE store[k]]

\* What a cache operation hands back: the value it returns, whether it raised
\* to its caller, and the server's keys after it.
CacheResult(ret, raised, store) == [ret |-> ret, raised |-> raised, store |-> store]

\* set without its try/catch: the client's rejection reaches the caller
RedisSetUncaught(store, connected, fails, key, value) ==
  IF ~connected THEN CacheResult(FALSE, FALSE, store)
  ELSE IF fails THEN CacheResult(FALSE, TRUE, store)
  ELSE CacheResult(TRUE, FALSE, ClientSetEx(store, key, value))

\* RedisClient.set: false when not connected or when the client rejects
RedisSet(store, connected, fails, key, value) ==
  IF ~connected THEN CacheResult(FALSE, FALSE, store)
  ELSE IF fails THEN CacheResult(FALSE, FALSE, store)
  ELSE CacheResult(TRUE, FALSE, ClientSetEx(store, key, value))

\* get without the connection test and the try/catch: the call on the absent
\* or failing client raises
RedisGetUncaught(store, connected, fails, key) ==
  IF ~connected \/ fails THEN CacheResult(NoValue, TRUE, store)
  ELSE IF key \notin DOMAIN store THEN CacheResult(NoValue, FALSE, store)
  ELSE CacheResult(store[key], FALSE, store)

\* RedisClient.get: null when not connected, when the client rejects or when
\* the key is absent; otherwise the parsed value
RedisGet(store, connected, fails, key) ==
  IF ~connected THEN CacheResult(NoValue, FALSE, store)
  ELSE IF fails THEN CacheResult(NoValue, FALSE, store)
  ELSE IF key \notin DOMAIN store THEN CacheResult(NoValue, FALSE, store)
  ELSE CacheResult(store[key], FALSE, store)

\* RedisClient.del
RedisDel(store, connected, fails, key) ==
  IF ~connected THEN CacheResult(FALSE, FALSE, store)
  ELSE IF fails THEN CacheResult(FALSE, FALSE, store)
  ELSE CacheResult(TRUE, FALSE, ClientDel(store, {key}))

\* RedisClient.exists
RedisExists(store, connected, fails, key) ==
  IF ~connected THEN CacheResult(FALSE, FALSE, store)
  ELSE IF fails THEN CacheResult(FALSE, FALSE, store)
  ELSE CacheResult(key \in DOMAIN store, FALSE, store)

\* RedisClient.flush
RedisFlush(store, connected, fails) ==
  IF ~connected THEN CacheResult(FALSE, FALSE, store)
  ELSE IF fails THEN CacheResult(FALSE, FALSE, store)
  ELSE CacheResult(TRUE, FALSE, ClientDel(store, DOMAIN store))

\* the pattern invalidateCourseCache hands to client.keys
InvalidatePrefix == CoursesNs

\* RedisClient.invalidateCourseCache, first half: the connection test and
\* client.keys('courses:*'); ret is false when the function has returned false
InvalidateKeys(store, connected, fails) ==
  IF ~connected THEN [ret |-> FALSE, raised |-> FALSE, store |-> store, keys |-> {}]
  ELSE IF fails THEN [ret |-> FALSE, raised |-> FALSE, store |-> store, keys |-> {}]
  ELSE [ret |-> TRUE, raised |-> FALSE, store |-> store,
        keys |-> ClientKeys(store, InvalidatePrefix)]

\* RedisClient.invalidateCourseCache, second half: client.del(keys) when there
\* are any
InvalidateDel(store, keys, fails) ==
  IF keys = {} THEN CacheResult(TRUE, FALSE, store)
  ELSE IF fails THEN CacheResult(FALSE, FALSE, store)
  ELSE CacheResult(TRUE, FALSE, ClientDel(store, keys))

\* RedisClient.invalidateCourseCache as one call
RedisInvalidateCourseCache(store, connected, failsKeys, failsDel) ==
  LET listed == InvalidateKeys(store, connected, failsKeys)
  IN IF listed.raised \/ ~listed.ret
       THEN CacheResult(FALSE, listed.raised, listed.store)
       ELSE InvalidateDel(listed.store, listed.keys, failsDel)

RedisGetCachedCourses(store, connected, fails, cacheKey) ==
  RedisGet(store, connected, fails, CoursesKey(cacheKey))

RedisSetCachedCourses(store, connected, fails, cacheKey, value) ==
  RedisSet(store, connected, fails, CoursesKey(cacheKey), value)

RedisGetCachedRecommendations(store, connected, fails, cacheKey) ==
  RedisGet(store, connected, fails, RecommendationsKey(cacheKey))

RedisSetCachedRecommendations(store, connected, fails, cacheKey, value) ==
  RedisSet(store, connected, fails, RecommendationsKey(cacheKey), value)

----------------------------------------------------------------------------
(* POST /api/courses/upload (routes/courses.js), after auth and multer *)

NoData == [none |-> TRUE]
NoResponse == [status |-> 0]
NoRun == [none |-> TRUE]

\* errors.slice(0, 10)
ErrorCap == 10
\* the whole list
SliceAll(s, n) == s
Slice(s, n) == IF Len(s) <= n THEN s ELSE SubSeq(s, 1, n)

IdleUpload ==
  [pc |-> "idle", file |-> <<>>, fileOnDisk |-> FALSE, hadFile |-> FALSE,
   results |-> <<>>, processedCount |-> 0, successCount |-> 0, errors |-> <<>>,
   courseData |-> NoData, existingCourse |-> FALSE, keys |-> {},
   response |-> NoResponse,
   \* history: the documents this request inserted, the courses: keys that
   \* were cached when it arrived, the token it carried (the admin's unless
   \* said otherwise) and the calls of the document store that failed
   inserts |-> 0, preKeys |-> {}, token |-> "admin", storeFailures |-> 0]

\* The request reaches the handler.  Without a file the handler answers 400;
\* with one, multer has stored it and the handler starts reading it.
StartedUpload(f, hasFile) ==
  IF hasFile
    THEN [IdleUpload EXCEPT !.pc = "reading", !.file = f,
            !.fileOnDisk = TRUE, !.hadFile = TRUE,
            !.preKeys = ClientKeys(cache, CoursesNs)]
    ELSE [IdleUpload EXCEPT !.pc = "done",
            !.response = [status |-> 400,
                          body |-> [error |-> "No CSV file uploaded"]]]

\* the authenticated admin's request arrives
UploadStart(u, f, hasFile, limit) ==
  /\ up[u].pc = "idle"
  /\ nUploads < limit
  /\ nUploads' = nUploads + 1
  /\ up' = [up EXCEPT ![u] = StartedUpload(f, hasFile)]
  /\ UNCHANGED <<client, db, now, cache, isConnected, rd, nReads, probe, hist>>

\* the tokens a request may carry: none, one jwt.verify rejects as malformed
\* or as expired, one of an id no admin has, one of an admin with isActive
\* false, and one of an active admin
Tokens == {"none", "malformed", "expired", "unknownAdmin", "inactiveAdmin", "admin"}

Unauthorized(message) == [status |-> 401, body |-> [error |-> message]]

\* the middleware with Admin.findOne({_id}) in place of
\* Admin.findOne({_id, isActive: true})
AuthAnyAdmin(token, lookupFails) ==
  CASE token = "none" -> Unauthorized("Access denied. No token provided.")
    [] token = "malformed" -> Unauthorized("Invalid token.")
    [] token = "expired" -> Unauthorized("Token expired.")
    [] lookupFails ->
         [status |-> 500, body |-> [error |-> "Internal server error during authentication."]]
    [] token = "unknownAdmin" -> Unauthorized("Invalid token. User not found.")
    [] OTHER -> NoResponse

\* the auth middleware: its answer, or NoResponse when it calls next();
\* lookupFails says that Admin.findOne rejects
Auth(token, lookupFails) ==
  CASE token = "none" -> Unauthorized("Access denied. No token provided.")
    [] token = "malformed" -> Unauthorized("Invalid token.")
    [] token = "expired" -> Unauthorized("Token expired.")
    [] lookupFails ->
         [status |-> 500, body |-> [error |-> "Internal server error during authentication."]]
    [] token \in {"unknownAdmin", "inactiveAdmin"} ->
         Unauthorized("Invalid token. User not found.")
    [] OTHER -> NoResponse

\* POST /upload with its middleware: auth answers, or the upload starts
UploadRequest(u, token, lookupFails, f, hasFile, limit) ==
  /\ up[u].pc = "idle"
  /\ nUploads < limit
  /\ nUploads' = nUploads + 1
  /\ up' = [up EXCEPT ![u] =
       IF Auth(token, lookupFails) = NoResponse
         THEN [StartedUpload(f, hasFile) EXCEPT !.token = token]
         ELSE [IdleUpload EXCEPT !.pc = "done", !.token = token,
                 !.response = Auth(token, lookupFails)]]
  /\ UNCHANGED <<client, db, now, cache, isConnected, rd, nReads, probe, hist>>

\* the loop's next iteration, or the end of the loop
NextRow(r, t) ==
  IF r.processedCount < Len(r.results)
    THEN [r EXCEPT !.pc = "find", !.processedCount = @ + 1,
            !.courseData = CourseData(r.results[r.processedCount + 1], t,
                                      r.processedCount + 1)]
    ELSE [r EXCEPT !.pc = "invalidate", !.courseData = NoData]

\* 'end': every row has been pushed to results; the loop starts
StreamEnd(u) ==
  /\ up[u].pc = "reading"
  /\ up' = [up EXCEPT ![u] = NextRow([up[u] EXCEPT !.results = up[u].file], now)]
  /\ UNCHANGED <<client, db, now, cache, isConnected, rd, nUploads, nReads, probe, hist>>

\* 'error' on the read stream: no listener is attached, 'end' never fires and
\* the handler never runs again for this request
StreamError(u) ==
  /\ up[u].pc = "reading"
  /\ up' = [up EXCEPT ![u].pc = "aborted"]
  /\ UNCHANGED <<client, db, now, cache, isConnected, rd, nUploads, nReads, probe, hist>>

\* await Course.findOne({ uniqueId })
RowFind(u) ==
  /\ up[u].pc = "find"
  /\ up' = [up EXCEPT ![u].pc = "write",
                      ![u].existingCourse = FindOne(db, up[u].courseData.uniqueId)]
  /\ UNCHANGED <<client, db, now, cache, isConnected, rd, nUploads, nReads, probe, hist>>

ErrorEntry(r, message) ==
  [row |-> r.processedCount, error |-> message, data |-> r.results[r.processedCount]]

\* what the store does with the row: update when findOne found it, else save
Upsert(coll, d, existingCourse) ==
  IF existingCourse THEN FindOneAndUpdate(coll, d) ELSE Save(coll, d)

\* the row's outcome: successCount++ or errors.push
RowOutcome(r, res) ==
  IF res.error = NoError
    THEN [r EXCEPT !.successCount = @ + 1,
            !.inserts = IF r.existingCourse THEN @ ELSE @ + 1]
    ELSE [r EXCEPT !.errors = Append(@, ErrorEntry(r, res.error))]


\* the row's catch without its errors.push
AfterStoreFailureUnrecorded(r, t) ==
  NextRow([r EXCEPT !.storeFailures = @ + 1], t)

\* the document store rejects the awaited call (the connection is lost): the
\* row's catch records it and the loop goes on
AfterStoreFailure(r, t) ==
  NextRow([r EXCEPT !.errors = Append(@, ErrorEntry(r, "connection lost")),
             !.storeFailures = @ + 1], t)

\* await Course.findOne rejects
RowFindFails(u) ==
  /\ up[u].pc = "find"
  /\ up' = [up EXCEPT ![u] = AfterStoreFailure(@, now)]
  /\ UNCHANGED <<client, db, now, cache, isConnected, rd, nUploads, nReads, probe, hist>>

\* await findOneAndUpdate / save rejects
RowWriteFails(u) ==
  /\ up[u].pc = "write"
  /\ up' = [up EXCEPT ![u] = AfterStoreFailure(@, now)]
  /\ UNCHANGED <<client, db, now, cache, isConnected, rd, nUploads, nReads, probe, hist>>

\* await findOneAndUpdate / save, then the catch or successCount++, then the
\* next iteration
RowWrite(u) ==
  /\ up[u].pc = "write"
  /\ LET res == Upsert(db, up[u].courseData, up[u].existingCourse)
     IN /\ db' = res.coll
        /\ up' = [up EXCEPT ![u] = NextRow(RowOutcome(@, res), now)]
        /\ hist' = IF res.coll = db THEN hist
                   ELSE [hist EXCEPT !.fresh = NoEntries, !.dbVer = @ + 1]
  /\ UNCHANGED <<client, now, cache, isConnected, rd, nUploads, nReads, probe>>

\* fs.unlinkSync and res.json, or the inner catch when unlinkSync throws
Finish(r, unlinkFails) ==
  IF unlinkFails
    THEN [r EXCEPT !.pc = "done",
            !.response = [status |-> 500,
                          body |-> [error |-> "Error processing CSV file"]]]
    ELSE [r EXCEPT !.pc = "done", !.fileOnDisk = FALSE,
            !.response =
              [status |-> 200,
               body |-> [message |-> "Course data upload completed",
                         summary |-> [totalProcessed |-> r.processedCount,
                                      successful |-> r.successCount,
                                      errors |-> Len(r.errors)],
                         errors |-> Slice(r.errors, ErrorCap)]]]

\* history after the handler has answered: a completed upload is the run a
\* later upload of the same file is compared with, and the keys cached before
\* it are owed a recomputation
AfterAnswer(h, r, coll) ==
  IF r.response.status = 200
    THEN [h EXCEPT !.lastRun = [file |-> r.file, db |-> coll],
                   !.mustMiss = @ \cup r.preKeys]
    ELSE h

\* invalidateCourseCache up to client.keys; when it returns false at once the
\* handler goes on to unlink and answer
UploadInvalidateKeys(u, fails, unlinkFails) ==
  /\ up[u].pc = "invalidate"
  /\ LET res == InvalidateKeys(cache, isConnected, fails)
     IN IF res.ret = FALSE
          THEN /\ up' = [up EXCEPT ![u] = Finish(@, unlinkFails)]
               /\ hist' = AfterAnswer(hist, up'[u], db)
          ELSE /\ up' = [up EXCEPT ![u].pc = "del", ![u].keys = res.keys]
               /\ hist' = hist
  /\ UNCHANGED <<client, db, now, cache, isConnected, rd, nUploads, nReads, probe>>

\* client.del(keys), then unlink and the answer
UploadInvalidateDel(u, fails, unlinkFails) ==
  /\ up[u].pc = "del"
  /\ LET res == InvalidateDel(cache, up[u].keys, fails)
     IN /\ cache' = res.store
        /\ up' = [up EXCEPT ![u] = Finish([up[u] EXCEPT !.keys = {}], unlinkFails)]
        /\ hist' = AfterAnswer(
             [hist EXCEPT !.fresh =
                [k \in (DOMAIN @) \cap (DOMAIN res.store) |-> @[k]],
                          !.origin =
                [k \in (DOMAIN @) \cap (DOMAIN res.store) |-> @[k]]],
             up'[u], db)
  /\ UNCHANGED <<client, db, now, isConnected, rd, nUploads, nReads, probe>>

\* the client is free to send its next request
UploadReset(u, limit) ==
  /\ up[u].pc \in {"done", "aborted"}
  /\ nUploads < limit
  /\ up' = [up EXCEPT ![u] = IdleUpload]
  /\ UNCHANGED <<client, db, now, cache, isConnected, rd, nUploads, nReads, probe, hist>>

\* time passes
Tick ==
  /\ now < MaxClock
  /\ now' = now + 1
  /\ UNCHANGED <<client, db, cache, isConnected, up, rd, nUploads, nReads, probe, hist>>

----------------------------------------------------------------------------
(* Ordering helpers *)

\* the strings of the model in code-unit order, as String.prototype.sort and
\* the store's ascending sort see them
StringsInOrder ==
  <<"AI", "Algebra", "Art", "Bio", "Biology", "Calculus", "Drawing", "Ethics",
    "Math", "Phil", "calc">>

StrRank(str) == CHOOSE i \in 1..Len(StringsInOrder) : StringsInOrder[i] = str

\* stable ascending sort by Key: an element's place is the number of elements
\* that come before it or are it
SortBy(s, Key(_)) ==
  LET place(i) ==
        Cardinality({j \in 1..Len(s) :
          Key(s[j]) < Key(s[i]) \/ (Key(s[j]) = Key(s[i]) /\ j <= i)})
  IN [k \in 1..Len(s) |-> s[CHOOSE i \in 1..Len(s) : place(i) = k]]

\* Array.prototype.filter / a store query's match stage
SelectSeqBy(s, Test(_)) == SelectSeq(s, Test)

\* the first n elements
Take(s, n) == IF Len(s) <= n THEN s ELSE SubSeq(s, 1, n)
\* what is left after the first n elements
Drop(s, n) == IF Len(s) <= n THEN <<>> ELSE SubSeq(s, n + 1, Len(s))

RECURSIVE SumSeq(_)
SumSeq(s) == IF s = <<>> THEN 0 ELSE s[Len(s)] + SumSeq(SubSeq(s, 1, Len(s) - 1))

MapSeq(s, F(_)) == [i \in 1..Len(s) |-> F(s[i])]

SeqRange(s) == {s[i] : i \in 1..Len(s)}

SetMin(S) == CHOOSE x \in S : \A y \in S : x <= y
SetMax(S) == CHOOSE x \in S : \A y \in S : y <= x

----------------------------------------------------------------------------
(* GET /api/courses (routes/courses.js) *)

\* the query string; an absent parameter is Undefined
NoParams ==
  [courseLevel |-> Undefined, disciplineMajor |-> Undefined,
   minTuition |-> Undefined, maxTuition |-> Undefined,
   limit |-> Undefined, page |-> Undefined]

CourseParams ==
  {NoParams,
   [NoParams EXCEPT !.courseLevel = "Postgraduate", !.limit = "1"]}

\* page sizes at and beyond the documented bounds 1..100
WideCourseParams ==
  {NoParams,
   [NoParams EXCEPT !.limit = "100"],
   [NoParams EXCEPT !.limit = "101"],
   [NoParams EXCEPT !.limit = "0"]}


\* filter combinations: a level, a discipline, tuition bounds, a page size and
\* a page, each given or absent
FilterCombinations ==
  [courseLevel : {Undefined, "Undergraduate"}, disciplineMajor : {Undefined, "Math"},
   minTuition : {Undefined, "100"}, maxTuition : {Undefined, "0", "100"},
   limit : {Undefined, "1"}, page : {Undefined, "2"}]

\* the combinations requested: each filter alone and several together, on the
\* first page and on a later one
FilterParams ==
  {NoParams,
   [NoParams EXCEPT !.courseLevel = "Undergraduate"],
   [NoParams EXCEPT !.disciplineMajor = "Math", !.limit = "1"],
   [NoParams EXCEPT !.minTuition = "100"],
   [NoParams EXCEPT !.maxTuition = "0"],
   [NoParams EXCEPT !.courseLevel = "Undergraduate", !.maxTuition = "100"],
   [NoParams EXCEPT !.minTuition = "100", !.maxTuition = "100", !.limit = "1",
      !.page = "2"],
   [NoParams EXCEPT !.courseLevel = "Undergraduate", !.disciplineMajor = "Math",
      !.minTuition = "100", !.maxTuition = "100", !.page = "2"]}

\* JSON text of a string and of a number
JsonString(str) == "\"" \o str \o "\""
JsonNumber(n) == ToString(n)


\* the key without the page and the page size
CoursesCacheKeyNoPaging(q) ==
  [courseLevel |-> IF q.courseLevel = Undefined THEN Undefined ELSE JsonString(q.courseLevel),
   disciplineMajor |->
     IF q.disciplineMajor = Undefined THEN Undefined ELSE JsonString(q.disciplineMajor),
   minTuition |-> IF q.minTuition = Undefined THEN Undefined ELSE JsonString(q.minTuition),
   maxTuition |-> IF q.maxTuition = Undefined THEN Undefined ELSE JsonString(q.maxTuition),
   limit |-> Undefined, page |-> Undefined]

\* JSON.stringify({query, ..., limit, page}) with limit = 50 and page = 1 as
\* defaults: an undefined member is left out, a given one is a JSON string
CoursesCacheKey(q) ==
  [courseLevel |-> IF q.courseLevel = Undefined THEN Undefined ELSE JsonString(q.courseLevel),
   disciplineMajor |->
     IF q.disciplineMajor = Undefined THEN Undefined ELSE JsonString(q.disciplineMajor),
   minTuition |-> IF q.minTuition = Undefined THEN Undefined ELSE JsonString(q.minTuition),
   maxTuition |-> IF q.maxTuition = Undefined THEN Undefined ELSE JsonString(q.maxTuition),
   limit |-> IF q.limit = Undefined THEN JsonNumber(50) ELSE JsonString(q.limit),
   page |-> IF q.page = Undefined THEN JsonNumber(1) ELSE JsonString(q.page)]

\* parseInt(limit), parseInt(page) with their defaults
LimitOf(q) == IF q.limit = Undefined THEN 50 ELSE ParseNum(q.limit)
PageOf(q) == IF q.page = Undefined THEN 1 ELSE ParseNum(q.page)


\* the tuition bounds taken as exclusive
MatchesExclusive(q, d) ==
  /\ Truthy(q.courseLevel) => d.courseLevel = q.courseLevel
  /\ Truthy(q.disciplineMajor) => d.disciplineMajor = q.disciplineMajor
  /\ q.minTuition /= Undefined => d.firstYearTuitionFee > ParseNum(q.minTuition)
  /\ q.maxTuition /= Undefined => d.firstYearTuitionFee < ParseNum(q.maxTuition)

\* searchQuery applied to one document
Matches(q, d) ==
  /\ Truthy(q.courseLevel) => d.courseLevel = q.courseLevel
  /\ Truthy(q.disciplineMajor) => d.disciplineMajor = q.disciplineMajor
  /\ q.minTuition /= Undefined => d.firstYearTuitionFee >= ParseNum(q.minTuition)
  /\ q.maxTuition /= Undefined => d.firstYearTuitionFee <= ParseNum(q.maxTuition)

NameKey(d) == StrRank(d.courseName)

\* Course.find(searchQuery).sort({courseName: 1}).skip(skip).limit(limit).lean()
\* (limit(0) is no limit)
FindCourses(coll, q) ==
  LET hit(d) == Matches(q, d)
      sorted == SortBy(SelectSeqBy(coll, hit), NameKey)
      rest == Drop(sorted, (PageOf(q) - 1) * LimitOf(q))
  IN IF LimitOf(q) = 0 THEN rest ELSE Take(rest, LimitOf(q))

\* Course.countDocuments(searchQuery)
CountCourses(coll, q) ==
  LET hit(d) == Matches(q, d) IN Len(SelectSeqBy(coll, hit))

\* Math.ceil(total / limit); a division by zero serializes as null (-1)
Pages(total, limit) == IF limit = 0 THEN -1 ELSE (total + limit - 1) \div limit

CoursesResult(q, courses, total) ==
  [courses |-> courses,
   pagination |-> [page |-> PageOf(q), limit |-> LimitOf(q), total |-> total,
                   pages |-> Pages(total, LimitOf(q))],
   fromCache |-> FALSE]

----------------------------------------------------------------------------
(* GET /api/courses/stats/summary (routes/courses.js) *)

Fees(coll) == MapSeq(coll, LAMBDA d : d.firstYearTuitionFee)

\* the $group with _id: null; avgTuition is kept as the pair sum / count
StatsSummary(coll) ==
  IF coll = <<>> THEN [empty |-> TRUE]
  ELSE [totalCourses |-> Len(coll),
        avgTuition |-> [sum |-> SumSeq(Fees(coll)), count |-> Len(coll)],
        minTuition |-> SetMin(SeqRange(Fees(coll))),
        maxTuition |-> SetMax(SeqRange(Fees(coll)))]

\* the $group by courseLevel; the order of the groups is not specified
LevelStats(coll) ==
  {[id |-> lv, count |-> Cardinality({i \in 1..Len(coll) : coll[i].courseLevel = lv})] :
     lv \in {coll[i].courseLevel : i \in 1..Len(coll)}}

StatsResult(summary, byLevel) ==
  [summary |-> summary, byLevel |-> byLevel, fromCache |-> FALSE]

----------------------------------------------------------------------------
(* GET /api/recommendations/popular and /topics (routes/recommendations.js) *)

\* $ifNull
IfNull(x, dflt) == IF x = UndefinedNum THEN dflt ELSE x

\* the $addFields stage: ranking, minus the acceptance rate, plus 100 for a
\* partner course
PopularityScore(d) ==
  IfNull(d.ftRanking2024, 1000) + IfNull(d.acceptanceRate, 50) * (-1)
    + (IF d.partnerCourse = TRUE THEN 100 ELSE 0)

PopularLimit == 10

\* the $project stage
PopularProject(d) ==
  [id |-> d.uniqueId, title |-> d.courseName, level |-> d.courseLevel,
   tuition |-> d.firstYearTuitionFee, ranking |-> d.ftRanking2024,
   acceptanceRate |-> d.acceptanceRate]

\* Course.aggregate([$addFields, $sort, $limit, $project])
PopularCourses(coll) ==
  MapSeq(Take(SortBy(coll, PopularityScore), PopularLimit), PopularProject)

PopularResult(popularCourses) ==
  [popularCourses |-> popularCourses, fromCache |-> FALSE]

\* a set of strings as the sorted array
SortedStrings(S) ==
  LET place(x) == Cardinality({y \in S : StrRank(y) <= StrRank(x)})
  IN [k \in 1..Cardinality(S) |-> CHOOSE x \in S : place(x) = k]

\* Course.distinct('disciplineMajor')
DistinctDisciplines(coll) == {coll[i].disciplineMajor : i \in 1..Len(coll)}

\* Course.distinct('keywords'): the rows have no keywords column, so every
\* document's keywords is the empty array
DistinctKeywords(coll) == {}

\* [...new Set([...disciplines, ...keywords])].filter(nonblank).sort()
AllTopics(disciplines, keywords) ==
  SortedStrings({t \in disciplines \cup keywords : Truthy(t)})

TopicsResult(allTopics) == [topics |-> allTopics, fromCache |-> FALSE]

----------------------------------------------------------------------------
(* POST /api/recommendations (routes/recommendations.js) *)

NoPrefs ==
  [topics |-> <<>>, skillLevel |-> Undefined, duration |-> Undefined,
   maxTuition |-> UndefinedNum]

RecPrefs ==
  {[NoPrefs EXCEPT !.topics = <<"Math">>],
   [NoPrefs EXCEPT !.topics = <<"calc", "Bio">>, !.skillLevel = "beginner",
      !.duration = "short", !.maxTuition = 40000]}

MockCourses ==
  <<[id |-> "ai_ml_001", duration |-> "12 months", tuition |-> 45000, matchScore |-> 95],
    [id |-> "data_science_001", duration |-> "18 months", tuition |-> 52000, matchScore |-> 92],
    [id |-> "web_dev_001", duration |-> "24 months", tuition |-> 38000, matchScore |-> 88],
    [id |-> "cybersecurity_001", duration |-> "16 months", tuition |-> 48000, matchScore |-> 85],
    [id |-> "business_tech_001", duration |-> "20 months", tuition |-> 55000, matchScore |-> 82]>>

\* parseInt(course.duration)
ParseMonths(str) ==
  CASE str = "12 months" -> 12 [] str = "18 months" -> 18 [] str = "24 months" -> 24
    [] str = "16 months" -> 16 [] str = "20 months" -> 20 [] OTHER -> NaN

\* the map with short and medium one entry off
DurationMapShifted(duration) ==
  CASE duration = "short" -> 18 [] duration = "medium" -> 24
    [] duration = "long" -> 24 [] OTHER -> 0

\* durationMap[duration], 0 when the map has no such member
DurationMap(duration) ==
  CASE duration = "short" -> 12 [] duration = "medium" -> 18
    [] duration = "long" -> 24 [] OTHER -> 0

MockLimit == 5

\* GeminiAIService.generateMockRecommendations
GenerateMockRecommendations(prefs) ==
  LET affordable(c) == c.tuition <= prefs.maxTuition
      byTuition ==
        IF prefs.maxTuition /= UndefinedNum /\ prefs.maxTuition /= 0
          THEN SelectSeqBy(MockCourses, affordable) ELSE MockCourses
      shortEnough(c) == ParseMonths(c.duration) <= DurationMap(prefs.duration)
      byDuration ==
        IF Truthy(prefs.duration) /\ DurationMap(prefs.duration) /= 0
          THEN SelectSeqBy(byTuition, shortEnough) ELSE byTuition
      descending(c) == 0 - c.matchScore
  IN Take(SortBy(byDuration, descending), MockLimit)

\* topics.sort(): the request's own array, sorted in place
SortTopics(topics) == SortBy(topics, StrRank)

\* the key built from the topics in the order received
RecommendationsCacheKeyUnsorted(prefs) == prefs

\* JSON.stringify({topics: topics.sort(), skillLevel, duration, maxTuition})
RecommendationsCacheKey(prefs) == [prefs EXCEPT !.topics = SortTopics(prefs.topics)]

\* the pairs (topic, text) where text contains topic, case ignored
ContainsIgnoreCase == {<<"calc", "Calculus">>, <<"Bio", "Biology">>}

\* { $regex: topics.join('|'), $options: 'i' }
RegexMatches(topics, text) == \E t \in SeqRange(topics) : <<t, text>> \in ContainsIgnoreCase

MatchLimit == 10

\* Course.find({$or: [...]}).limit(10).lean(), then the map to the answer's shape
MatchingCourses(coll, topics) ==
  LET hit(d) == d.disciplineMajor \in SeqRange(topics) \/ RegexMatches(topics, d.courseName)
      shape(d) == [id |-> d.uniqueId, title |-> d.courseName, level |-> d.courseLevel,
                   tuition |-> d.firstYearTuitionFee]
  IN MapSeq(Take(SelectSeqBy(coll, hit), MatchLimit), shape)

\* the reasoning sentence: the topics joined, and the skill level or its default
Reasoning(prefs) ==
  [topics |-> prefs.topics, skillLevel |-> Or(prefs.skillLevel, "intermediate")]

\* geminiService.generateRecommendations: the mock list and the reasoning, from
\* the preferences with the topics as topics.sort() left them
GenerateRecommendations(prefs) ==
  LET sorted == [prefs EXCEPT !.topics = SortTopics(prefs.topics)]
  IN [success |-> TRUE,
      recommendations |-> GenerateMockRecommendations(sorted),
      reasoning |-> Reasoning(sorted)]

RecommendationsResult(prefs, aiResponse, databaseCourses) ==
  [aiRecommendations |-> aiResponse.recommendations,
   databaseCourses |-> databaseCourses,
   reasoning |-> aiResponse.reasoning,
   preferences |-> [prefs EXCEPT !.topics = SortTopics(prefs.topics)],
   fromCache |-> FALSE]

----------------------------------------------------------------------------
(* The five cached read handlers.  They share one shape: cache lookup, on a  *)
(* miss the repository queries (one step per await), then cache write and    *)
(* answer.  A throw anywhere lands in the handler's catch and answers 500.   *)

Endpoints == {"courses", "stats", "popular", "topics", "recommendations"}

IdleRead ==
  [pc |-> "idle", ep |-> "none", q |-> NoParams, prefs |-> NoPrefs, acc |-> <<>>,
   id |-> Undefined, topicsType |-> "strings", response |-> NoResponse,
   \* req.body.topics as it is now (prefs keeps the body as it was received)
   topicsNow |-> <<>>,
   \* history: was the cache unreachable at the lookup, and the collection's
   \* version at each query
   down |-> FALSE, vers |-> <<>>]

\* the key each handler reads and writes
KeyOf(ep, q, prefs) ==
  CASE ep = "courses" -> CoursesKey(CoursesCacheKey(q))
    [] ep = "stats" -> FixedKey("course_stats")
    [] ep = "popular" -> FixedKey("popular_recommendations")
    [] ep = "topics" -> FixedKey("available_topics")
    [] ep = "recommendations" -> RecommendationsKey(RecommendationsCacheKey(prefs))

\* the truthiness test written as a test for content: an empty array misses
IsHitNonEmpty(cached) ==
  /\ cached /= NoValue
  /\ "array" \in DOMAIN cached => cached.array /= <<>>

\* if (cachedData): null is a miss, any object or array is a hit
IsHit(cached) == cached /= NoValue

\* the answer on a hit: {...cached, fromCache: true}, and for topics
\* {topics: cached, fromCache: true}
HitBody(ep, cached) ==
  IF ep = "topics" THEN [topics |-> cached.array, fromCache |-> TRUE]
  ELSE [cached EXCEPT !.fromCache = TRUE]

\* what the handler caches: the result, and for topics the bare array
StoredValue(ep, result) ==
  IF ep = "topics" THEN [array |-> result.topics] ELSE result

\* the awaited computations of each handler between its cache lookup and its
\* cache write: repository queries, and the generator of POST /recommendations
NQueries(ep) == IF ep = "popular" THEN 1 ELSE 2

\* the n-th query of the handler, on the collection as it is now
RunQuery(r, n, coll) ==
  CASE r.ep = "courses" /\ n = 1 -> FindCourses(coll, r.q)
    [] r.ep = "courses" /\ n = 2 -> CountCourses(coll, r.q)
    [] r.ep = "stats" /\ n = 1 -> StatsSummary(coll)
    [] r.ep = "stats" /\ n = 2 -> LevelStats(coll)
    [] r.ep = "popular" -> PopularCourses(coll)
    [] r.ep = "topics" /\ n = 1 -> DistinctDisciplines(coll)
    [] r.ep = "topics" /\ n = 2 -> DistinctKeywords(coll)
    [] r.ep = "recommendations" /\ n = 1 -> GenerateRecommendations(r.prefs)
    [] r.ep = "recommendations" /\ n = 2 ->
         MatchingCourses(coll, SortTopics(r.prefs.topics))

\* the result object built from the query results
BuildResult(r) ==
  CASE r.ep = "courses" -> CoursesResult(r.q, r.acc[1], r.acc[2])
    [] r.ep = "stats" -> StatsResult(r.acc[1], r.acc[2])
    [] r.ep = "popular" -> PopularResult(r.acc[1])
    [] r.ep = "topics" -> TopicsResult(AllTopics(r.acc[1], r.acc[2]))
    [] r.ep = "recommendations" -> RecommendationsResult(r.prefs, r.acc[1], r.acc[2])

ServerError == [status |-> 500, body |-> [error |-> "Error"]]

\* the handler after its cache lookup returned
AfterLookup(r, res, unreachable) ==
  IF res.raised
    THEN [r EXCEPT !.pc = "done", !.response = ServerError, !.down = unreachable]
  ELSE IF IsHit(res.ret)
    THEN [r EXCEPT !.pc = "done", !.down = unreachable,
            !.response = [status |-> 200, body |-> HitBody(r.ep, res.ret)]]
    ELSE [r EXCEPT !.pc = "query", !.down = unreachable]


\* req.body.topics once the handler has built its cache key: topics.sort()
\* sorts the body's own array
TopicsAfterKey(ep, topics) ==
  IF ep = "recommendations" THEN SortTopics(topics) ELSE topics

\* the request arrives and the handler awaits the cache lookup
ReadLookup(p, ep, q, prefs, fails) ==
  /\ rd[p].pc = "idle"
  /\ nReads < MaxReads
  /\ nReads' = nReads + 1
  /\ LET key == KeyOf(ep, q, prefs)
         res == RedisGet(cache, isConnected, fails, key)
         r == [IdleRead EXCEPT !.ep = ep, !.q = q, !.prefs = prefs,
                 !.topicsNow = TopicsAfterKey(ep, prefs.topics)]
     IN /\ rd' = [rd EXCEPT ![p] = AfterLookup(r, res, ~isConnected \/ fails)]
        /\ cache' = res.store
        /\ hist' = [hist EXCEPT !.mustMiss = @ \ {key}]
  /\ UNCHANGED <<client, db, now, isConnected, up, nUploads, probe>>

\* one awaited repository query
ReadQuery(p) ==
  /\ rd[p].pc = "query"
  /\ LET r == rd[p]
         acc == Append(r.acc, RunQuery(r, Len(r.acc) + 1, db))
     IN rd' = [rd EXCEPT ![p].acc = acc, ![p].vers = Append(@, hist.dbVer),
                         ![p].pc = IF Len(acc) = NQueries(r.ep) THEN "store" ELSE "query"]
  /\ UNCHANGED <<client, db, now, cache, isConnected, up, nUploads, nReads, probe, hist>>

\* the handler after its cache write returned
AfterStore(r, res) ==
  IF res.raised THEN [r EXCEPT !.pc = "done", !.response = ServerError]
  ELSE [r EXCEPT !.pc = "done", !.response = [status |-> 200, body |-> BuildResult(r)]]

\* the answer just computed is what the next request for the key is owed,
\* provided the cache took it
Remember(fresh, key, wrote, body) ==
  IF wrote
    THEN [k \in (DOMAIN fresh) \cup {key} |-> IF k = key THEN body ELSE fresh[k]]
    ELSE [k \in (DOMAIN fresh) \ {key} |-> fresh[k]]


\* the parameters a request's answer is computed for: the endpoint, the
\* listing parameters, and the preferences with their topics sorted
ParamsOf(r) ==
  [ep |-> r.ep, q |-> r.q, prefs |-> [r.prefs EXCEPT !.topics = SortTopics(@)]]

\* await set / setCachedCourses / setCachedRecommendations, then res.json
ReadStore(p, fails) ==
  /\ rd[p].pc = "store"
  /\ LET r == rd[p]
         key == KeyOf(r.ep, r.q, r.prefs)
         res == RedisSet(cache, isConnected, fails, key, StoredValue(r.ep, BuildResult(r)))
     IN /\ rd' = [rd EXCEPT ![p] = AfterStore(r, res)]
        /\ cache' = res.store
        /\ hist' = [hist EXCEPT !.fresh = Remember(@, key, res.ret, BuildResult(r)),
                                !.origin = IF res.ret THEN Remember(@, key, TRUE, ParamsOf(r))
                                           ELSE @]
  /\ UNCHANGED <<client, db, now, isConnected, up, nUploads, nReads, probe>>

\* the error swallowed: the handler answers 200 without a result
AfterQueryFailureAnswers(r) ==
  [r EXCEPT !.pc = "done", !.response = [status |-> 200, body |-> [fromCache |-> FALSE]]]

\* the handler after a repository query or the generator rejected: the catch
\* answers 500
AfterQueryFailure(r) == [r EXCEPT !.pc = "done", !.response = ServerError]

\* an awaited repository query (or the generator) rejects
ReadQueryFails(p) ==
  /\ rd[p].pc = "query"
  /\ rd' = [rd EXCEPT ![p] = AfterQueryFailure(@)]
  /\ UNCHANGED <<client, db, now, cache, isConnected, up, nUploads, nReads, probe, hist>>

\* the client is free to send its next request
ReadReset(p) ==
  /\ rd[p].pc = "done"
  /\ nReads < MaxReads
  /\ rd' = [rd EXCEPT ![p] = IdleRead]
  /\ UNCHANGED <<client, db, now, cache, isConnected, up, nUploads, nReads, probe, hist>>

----------------------------------------------------------------------------
(* validate(recommendationSchemas.getRecommendations) (middleware/validation.js) *)

\* a request body: topicsType is the JSON type of its topics member ("strings"
\* for an array of strings, whose items are in topics), the other members are
\* as in the preferences
Body(topicsType, prefs) ==
  [topicsType |-> topicsType, topics |-> prefs.topics, skillLevel |-> prefs.skillLevel,
   duration |-> prefs.duration, maxTuition |-> prefs.maxTuition]

\* const { topics, skillLevel, duration, maxTuition } = req.body
PrefsOf(body) ==
  [topics |-> body.topics, skillLevel |-> body.skillLevel,
   duration |-> body.duration, maxTuition |-> body.maxTuition]

SkillLevels == {"beginner", "intermediate", "advanced"}
Durations == {"short", "medium", "long"}

\* schema.validate(req.body).error: the first failing rule, in the order of
\* the schema's keys, or none
ValidationErrorNoRange(body) ==
  CASE body.topicsType = "absent" -> "Topics are required"
    [] body.topicsType = "string" -> "\"topics\" must be an array"
    [] body.topicsType = "numbers" -> "\"topics[0]\" must be a string"
    [] body.topics = <<>> -> "At least one topic is required"
    [] body.skillLevel /= Undefined /\ body.skillLevel \notin SkillLevels ->
         "\"skillLevel\" must be one of [beginner, intermediate, advanced]"
    [] body.duration /= Undefined /\ body.duration \notin Durations ->
         "\"duration\" must be one of [short, medium, long]"
    [] OTHER -> NoError

ValidationError(body) ==
  CASE body.topicsType = "absent" -> "Topics are required"
    [] body.topicsType = "string" -> "\"topics\" must be an array"
    [] body.topicsType = "numbers" -> "\"topics[0]\" must be a string"
    [] body.topics = <<>> -> "At least one topic is required"
    [] body.skillLevel /= Undefined /\ body.skillLevel \notin SkillLevels ->
         "\"skillLevel\" must be one of [beginner, intermediate, advanced]"
    [] body.duration /= Undefined /\ body.duration \notin Durations ->
         "\"duration\" must be one of [short, medium, long]"
    [] body.maxTuition /= UndefinedNum /\ body.maxTuition < 0 ->
         "\"maxTuition\" must be greater than or equal to 0"
    [] OTHER -> NoError

\* the middleware's answer to an invalid body
ValidationResponse(message) ==
  [status |-> 400, body |-> [error |-> "Validation error", details |-> <<message>>]]

\* the bodies sent to POST /recommendations
ValidBodies ==
  {Body("strings", prefs) : prefs \in
     {[NoPrefs EXCEPT !.topics = <<"Math">>],
      [NoPrefs EXCEPT !.topics = <<"Math">>, !.maxTuition = 0],
      [NoPrefs EXCEPT !.topics = <<"Math">>, !.maxTuition = 50000],
      [NoPrefs EXCEPT !.topics = <<"Math">>, !.duration = "short"],
      [NoPrefs EXCEPT !.topics = <<"Math">>, !.duration = "medium"],
      [NoPrefs EXCEPT !.topics = <<"Math">>, !.duration = "long", !.maxTuition = 50000]}}

\* two bodies that differ in the order of their topics only
PermutedBodies ==
  {Body("strings", [NoPrefs EXCEPT !.topics = t, !.skillLevel = "beginner"]) :
     t \in {<<"calc", "Bio">>, <<"Bio", "calc">>}}

InvalidBodies ==
  {Body("absent", NoPrefs), Body("string", NoPrefs), Body("numbers", NoPrefs),
   Body("strings", NoPrefs),
   Body("strings", [NoPrefs EXCEPT !.topics = <<"Math">>, !.skillLevel = "expert"]),
   Body("strings", [NoPrefs EXCEPT !.topics = <<"Math">>, !.duration = "forever"]),
   Body("strings", [NoPrefs EXCEPT !.topics = <<"Math">>, !.maxTuition = -5])}

\* POST /api/recommendations: the middleware answers 400 to an invalid body,
\* and hands a valid one to the handler
RecommendationsPost(p, body, fails) ==
  IF ValidationError(body) /= NoError
    THEN /\ rd[p].pc = "idle"
         /\ nReads < MaxReads
         /\ nReads' = nReads + 1
         /\ rd' = [rd EXCEPT ![p] =
              [IdleRead EXCEPT !.pc = "done", !.ep = "recommendations",
                 !.prefs = PrefsOf(body), !.topicsType = body.topicsType,
                 !.topicsNow = body.topics,
                 !.response = ValidationResponse(ValidationError(body))]]
         /\ UNCHANGED <<client, db, now, cache, isConnected, up, nUploads, probe, hist>>
    ELSE ReadLookup(p, "recommendations", NoParams, PrefsOf(body), fails)

----------------------------------------------------------------------------
(* GET /api/courses/:id (routes/courses.js) *)

\* the internal identifier (_id) the store gave the i-th document it inserted;
\* the name stands for a 24-digit hexadecimal string
OidOf(i) == "oid" \o ToString(i)

\* the strings that have the internal identifier's format
ObjectIdStrings == {OidOf(i) : i \in 1..9}

\* the ids requested: a stored uniqueId, an unknown word, the internal
\* identifier of the first document, an identifier no document has
CourseIds == {"c1", "zz", OidOf(1), OidOf(9)}

\* Course.findOne({$or: [{uniqueId: id}, {_id: id}]}): the filter is cast to
\* the schema first, and an id that is no ObjectId fails the cast of _id
FindByIdOrUniqueId(coll, id) ==
  LET hits == {i \in 1..Len(coll) : coll[i].uniqueId = id \/ OidOf(i) = id}
  IN IF id \notin ObjectIdStrings
       THEN [error |-> "Cast to ObjectId failed", found |-> FALSE, course |-> NoData]
     ELSE IF hits = {}
       THEN [error |-> NoError, found |-> FALSE, course |-> NoData]
     ELSE [error |-> NoError, found |-> TRUE, course |-> coll[SetMin(hits)]]

\* the answer: 500 from the catch, 404 without a course, or the course
CourseByIdResponse(res) ==
  IF res.error /= NoError THEN ServerError
  ELSE IF ~res.found THEN [status |-> 404, body |-> [error |-> "Course not found"]]
  ELSE [status |-> 200, body |-> [course |-> res.course]]

\* the handler has one await, the query
GetCourseById(p, id) ==
  /\ rd[p].pc = "idle"
  /\ nReads < MaxReads
  /\ nReads' = nReads + 1
  /\ rd' = [rd EXCEPT ![p] =
       [IdleRead EXCEPT !.pc = "done", !.ep = "byId", !.id = id,
          !.response = CourseByIdResponse(FindByIdOrUniqueId(db, id))]]
  /\ UNCHANGED <<client, db, now, cache, isConnected, up, nUploads, probe, hist>>

----------------------------------------------------------------------------
(* The browser's ApiClient (src/lib/api.ts) *)

\* the calls the client may have in flight at once
Slots == {"s1", "s2"}

\* the methods that send a JSON request
Methods == {"login", "signup", "logout", "getProfile"}

\* how a request ends: a 2xx answer, a 401, another error status, or fetch
\* rejecting (the network is down)
Outcomes == {"ok", "unauthorized", "error", "rejected"}

\* the tokens a login or signup answer carries
IssuedTokens == {"admin", "expired"}

NoHeaders == [h \in {} |-> ""]

NoCall == [method |-> "none", outcome |-> "none", token |-> "none"]

\* a call slot: the request in flight with the headers it was sent with
IdleCall == [pc |-> "idle", method |-> "none", headers |-> NoHeaders]

\* a fresh client in a browser without a stored token; last is history: the
\* call that finished last
InitialClient ==
  [token |-> "none", storage |-> "none", calls |-> [s \in Slots |-> IdleCall],
   last |-> NoCall]

\* setToken, clearToken: the field and localStorage
SetToken(c, t) == [c EXCEPT !.token = t, !.storage = t]
ClearToken(c) == [c EXCEPT !.token = "none", !.storage = "none"]

\* request(): {'Content-Type': 'application/json', ...options.headers}, then
\* Authorization when the client has a token
RequestHeaders(token, optionHeaders) ==
  [h \in {"Content-Type"} \cup (DOMAIN optionHeaders)
         \cup (IF token /= "none" THEN {"Authorization"} ELSE {}) |->
     IF h = "Authorization" /\ token /= "none" THEN token
     ELSE IF h \in DOMAIN optionHeaders THEN optionHeaders[h]
     ELSE "application/json"]

\* uploadCourses' options.headers: an object without members
UploadOptionHeaders == NoHeaders

\* the Content-Type fetch sends: the caller's, or for a FormData body without
\* one the multipart type it generates
WireContentType(headers, bodyKind) ==
  IF "Content-Type" \in DOMAIN headers THEN headers["Content-Type"]
  ELSE IF bodyKind = "formData" THEN "multipart/form-data"
  ELSE "text/plain"

\* upload.single('csvFile') parses multipart requests only; any other request
\* passes with req.file undefined
MulterAccepts(contentType) == contentType = "multipart/form-data"

\* the token of the request as the server reads it from Authorization
BearerOf(headers) ==
  IF "Authorization" \in DOMAIN headers THEN headers["Authorization"] ELSE "none"

\* logout with clearToken after the request instead of in finally
SettledNoFinally(c, method, outcome, t) ==
  CASE outcome = "unauthorized" -> ClearToken(c)
    [] outcome = "ok" /\ method \in {"login", "signup"} -> SetToken(c, t)
    [] outcome = "ok" /\ method = "logout" -> ClearToken(c)
    [] OTHER -> c

\* the client once the awaited fetch of a call has settled: request() clears
\* the token on a 401 and throws on any failure; login and signup store the
\* token of a successful answer; logout clears the token in finally
Settled(c, method, outcome, t) ==
  LET afterRequest == IF outcome = "unauthorized" THEN ClearToken(c) ELSE c
  IN CASE method \in {"login", "signup"} /\ outcome = "ok" -> SetToken(afterRequest, t)
       [] method = "logout" -> ClearToken(afterRequest)
       [] OTHER -> afterRequest

\* a method is called: request() builds the headers and awaits fetch
ClientCall(s, method) ==
  /\ client.calls[s].pc = "idle"
  /\ client' = [client EXCEPT !.calls[s] =
       [pc |-> "waiting", method |-> method,
        headers |-> RequestHeaders(client.token, NoHeaders)]]
  /\ UNCHANGED <<db, now, cache, isConnected, up, rd, nUploads, nReads, probe, hist>>

\* the awaited fetch settles and the method runs to its end
ClientSettle(s, outcome, t) ==
  /\ client.calls[s].pc = "waiting"
  /\ LET method == client.calls[s].method
         issued == IF outcome = "ok" /\ method \in {"login", "signup"} THEN t ELSE "none"
         c == Settled(client, method, outcome, issued)
     IN client' = [c EXCEPT !.calls[s] = IdleCall,
                            !.last = [method |-> method, outcome |-> outcome,
                                      token |-> issued]]
  /\ UNCHANGED <<db, now, cache, isConnected, up, rd, nUploads, nReads, probe, hist>>

\* uploadCourses(file): the request reaches POST /upload with the headers
\* request() built around the FormData body
ClientUploadCourses(u, f, lookupFails) ==
  LET headers == RequestHeaders(client.token, UploadOptionHeaders)
  IN UploadRequest(u, BearerOf(headers), lookupFails, f,
                   MulterAccepts(WireContentType(headers, "formData")), MaxUploads)

\* the upload's answer reaches the client
ClientUploadSettle(u) ==
  /\ up[u].pc = "done"
  /\ LET outcome == CASE up[u].response.status = 200 -> "ok"
                      [] up[u].response.status = 401 -> "unauthorized"
                      [] OTHER -> "error"
     IN client' = [Settled(client, "uploadCourses", outcome, "none") EXCEPT
                     !.last = [method |-> "uploadCourses", outcome |-> outcome,
                               token |-> "none"]]
  /\ up' = [up EXCEPT ![u] = IdleUpload]
  /\ UNCHANGED <<db, now, cache, isConnected, rd, nUploads, nReads, probe, hist>>

----------------------------------------------------------------------------
(* The cache server and its connection *)

\* an entry's time to live runs out
Expire(key) ==
  /\ key \in DOMAIN cache
  /\ cache' = ClientDel(cache, {key})
  /\ hist' = [hist EXCEPT !.fresh = [k \in (DOMAIN @) \ {key} |-> @[k]],
                          !.origin = [k \in (DOMAIN @) \ {key} |-> @[k]]]
  /\ UNCHANGED <<client, db, now, isConnected, up, rd, nUploads, nReads, probe>>

\* client.on('error'): isConnected = false
Disconnect ==
  /\ isConnected
  /\ isConnected' = FALSE
  /\ UNCHANGED <<client, db, now, cache, up, rd, nUploads, nReads, probe, hist>>

\* client.on('connect'): isConnected = true
Connect ==
  /\ ~isConnected
  /\ isConnected' = TRUE
  /\ UNCHANGED <<client, db, now, cache, up, rd, nUploads, nReads, probe, hist>>

----------------------------------------------------------------------------
(* A caller of the cache client: any operation, on any key, at any time *)

CacheOps ==
  {"get", "set", "del", "exists", "flush", "getCachedCourses", "setCachedCourses",
   "invalidateCourseCache", "getCachedRecommendations", "setCachedRecommendations"}

\* the operations that return the cached value rather than a success flag
ReadingOps == {"get", "getCachedCourses", "getCachedRecommendations"}

\* the keys get, set, del and exists are called with, and the cacheKey the
\* courses and recommendations wrappers are called with
ProbeKeys == {FixedKey("course_stats"), FixedKey("available_topics")}
ProbeCacheKeys == {CoursesCacheKey(NoParams)}

ProbeValues == {TopicsResult(<<>>), TopicsResult(<<"Math">>)}

\* the operation applied: fails says the client rejects the first call made on
\* it, failsDel that it rejects the del of invalidateCourseCache
CallCache(op, store, connected, fails, failsDel, key, cacheKey, value) ==
  CASE op = "get" -> RedisGet(store, connected, fails, key)
    [] op = "set" -> RedisSet(store, connected, fails, key, value)
    [] op = "del" -> RedisDel(store, connected, fails, key)
    [] op = "exists" -> RedisExists(store, connected, fails, key)
    [] op = "flush" -> RedisFlush(store, connected, fails)
    [] op = "getCachedCourses" -> RedisGetCachedCourses(store, connected, fails, cacheKey)
    [] op = "setCachedCourses" -> RedisSetCachedCourses(store, connected, fails, cacheKey, value)
    [] op = "invalidateCourseCache" ->
         RedisInvalidateCourseCache(store, connected, fails, failsDel)
    [] op = "getCachedRecommendations" ->
         RedisGetCachedRecommendations(store, connected, fails, cacheKey)
    [] op = "setCachedRecommendations" ->
         RedisSetCachedRecommendations(store, connected, fails, cacheKey, value)

\* did a call of the backing client reject
ClientFailed(op, store, fails, failsDel) ==
  IF op = "invalidateCourseCache"
    THEN fails \/ (failsDel /\ ClientKeys(store, InvalidatePrefix) /= {})
    ELSE fails

CacheCall(op, key, cacheKey, value, fails, failsDel) ==
  /\ LET res == CallCache(op, cache, isConnected, fails, failsDel, key, cacheKey, value)
     IN /\ cache' = res.store
        /\ probe' = [op |-> op, connected |-> isConnected,
                     failed |-> ClientFailed(op, cache, fails, failsDel),
                     ret |-> res.ret, raised |-> res.raised,
                     held |-> DOMAIN cache, changed |-> res.store /= cache]
  /\ UNCHANGED <<client, db, now, isConnected, up, rd, nUploads, nReads, hist>>

\* the connection changes; the probe is over
ProbeDisconnect ==
  /\ isConnected
  /\ isConnected' = FALSE
  /\ probe' = NoProbe
  /\ UNCHANGED <<client, db, now, cache, up, rd, nUploads, nReads, hist>>

ProbeConnect ==
  /\ ~isConnected
  /\ isConnected' = TRUE
  /\ probe' = NoProbe
  /\ UNCHANGED <<client, db, now, cache, up, rd, nUploads, nReads, hist>>

----------------------------------------------------------------------------
(* Specifications *)

\* fresh: per key, the body of the last answer computed for it, while nothing
\* has invalidated, expired or re-ingested since; mustMiss: the courses: keys
\* cached before a completed upload and not requested since; lastRun: the last
\* completed upload; dbVer: the number of writes to the collection
NoHistory ==
  [fresh |-> NoEntries, mustMiss |-> {}, lastRun |-> NoRun, dbVer |-> 0,
   origin |-> NoEntries]

Init ==
  /\ db = <<>>
  /\ now = 0
  /\ cache = NoEntries
  /\ isConnected = TRUE
  /\ up = [u \in Uploaders |-> IdleUpload]
  /\ rd = [p \in Readers |-> IdleRead]
  /\ nUploads = 0
  /\ nReads = 0
  /\ probe = NoProbe
  /\ hist = NoHistory
  /\ client = InitialClient

\* the steps of an upload once its file is read; unlinkOutcomes says whether
\* the file system may refuse the unlink
UploadRows(u, unlinkOutcomes) ==
  \/ StreamEnd(u)
  \/ RowFind(u)
  \/ RowWrite(u)
  \/ \E fails \in BOOLEAN, unlinkFails \in unlinkOutcomes :
       UploadInvalidateKeys(u, fails, unlinkFails)
  \/ \E fails \in BOOLEAN, unlinkFails \in unlinkOutcomes :
       UploadInvalidateDel(u, fails, unlinkFails)

\* the files two racing uploads carry
RaceFiles == SeqsUpTo({RowAlgebra, RowCalculus, RowNoId}, MaxRows)

\* two clients uploading, possibly at the same time
NextUpload ==
  \/ \E u \in Uploaders, f \in RaceFiles : UploadStart(u, f, TRUE, MaxUploads)
  \/ \E u \in Uploaders : UploadRows(u, {FALSE})
  \/ \E u \in Uploaders : UploadReset(u, MaxUploads)
  \/ Tick

SpecUpload == Init /\ [][NextUpload]_vars

\* the requests the readers send
Requests ==
  {[ep |-> "courses", q |-> q, prefs |-> NoPrefs] : q \in CourseParams}
    \cup {[ep |-> ep, q |-> NoParams, prefs |-> NoPrefs] : ep \in {"stats", "popular", "topics"}}
    \cup {[ep |-> "recommendations", q |-> NoParams, prefs |-> prefs] : prefs \in RecPrefs}

ReadStep(p) ==
  \/ \E req \in Requests, fails \in BOOLEAN : ReadLookup(p, req.ep, req.q, req.prefs, fails)
  \/ ReadQuery(p)
  \/ \E fails \in BOOLEAN : ReadStore(p, fails)
  \/ ReadReset(p)

\* the files uploaded while requests are being read
SmallFiles == SeqsUpTo({RowAlgebra, RowCalculus}, 1)

\* one client uploading, two clients reading, and the cache coming and going
Next ==
  \/ \E f \in SmallFiles : UploadStart("u1", f, TRUE, MaxIngests)
  \/ UploadRows("u1", {FALSE})
  \/ \E p \in Readers : ReadStep(p)
  \/ \E key \in DOMAIN cache : Expire(key)
  \/ Disconnect
  \/ Connect

Spec == Init /\ [][Next]_vars

\* one client uploading file after file, with a file system that may fail
NextSingle ==
  \/ \E f \in Files, hasFile \in BOOLEAN : UploadStart("u1", f, hasFile, MaxUploads)
  \/ UploadRows("u1", BOOLEAN)
  \/ StreamError("u1")
  \/ UploadReset("u1", MaxUploads)
  \/ Tick

SpecSingle == Init /\ [][NextSingle]_vars

\* one upload of a long file
NextSummary ==
  \/ \E f \in LongFiles : UploadStart("u1", f, TRUE, 1)
  \/ UploadRows("u1", {FALSE})

SpecSummary == Init /\ [][NextSummary]_vars

\* the files uploaded while the read handlers are exercised
ReadFiles == SeqsUpTo({RowAlgebra, RowArt, RowBiology}, MaxRows)

\* the requests of SpecRead
WideRequests ==
  {[ep |-> "courses", q |-> q, prefs |-> NoPrefs] : q \in WideCourseParams}
    \cup {[ep |-> "popular", q |-> NoParams, prefs |-> NoPrefs]}

\* one client uploading and one client reading, with a working cache and a
\* repository whose queries may fail
NextRead ==
  \/ \E f \in ReadFiles : UploadStart("u1", f, TRUE, MaxIngests)
  \/ UploadRows("u1", {FALSE})
  \/ \E req \in WideRequests : ReadLookup("r1", req.ep, req.q, req.prefs, FALSE)
  \/ \E id \in CourseIds : GetCourseById("r1", id)
  \/ \E body \in ValidBodies \cup InvalidBodies : RecommendationsPost("r1", body, FALSE)
  \/ ReadQuery("r1")
  \/ ReadQueryFails("r1")
  \/ ReadStore("r1", FALSE)
  \/ ReadReset("r1")

SpecRead == Init /\ [][NextRead]_vars

\* two clients sending POST /recommendations with the same topics in either
\* order while a third uploads
NextPermuted ==
  \/ \E f \in ReadFiles : UploadStart("u1", f, TRUE, MaxIngests)
  \/ UploadRows("u1", {FALSE})
  \/ \E p \in Readers, body \in PermutedBodies : RecommendationsPost(p, body, FALSE)
  \/ \E p \in Readers : ReadQuery(p)
  \/ \E p \in Readers : ReadStore(p, FALSE)
  \/ \E p \in Readers : ReadReset(p)

SpecPermuted == Init /\ [][NextPermuted]_vars

\* the files uploaded to a store that may fail
FaultFiles == SeqsUpTo({RowAlgebra, RowBiology, RowBadLevel}, MaxRows)

\* uploads with any token to a document store that may fail, and a client
\* reading the course list
NextFaults ==
  \/ \E token \in Tokens, lookupFails \in BOOLEAN, f \in FaultFiles :
       UploadRequest("u1", token, lookupFails, f, TRUE, MaxUploads)
  \/ UploadRows("u1", {FALSE})
  \/ RowFindFails("u1")
  \/ RowWriteFails("u1")
  \/ UploadReset("u1", MaxUploads)
  \/ ReadLookup("r1", "courses", NoParams, NoPrefs, FALSE)
  \/ ReadQuery("r1")
  \/ ReadStore("r1", FALSE)

SpecFaults == Init /\ [][NextFaults]_vars


\* the files behind the listing: courses of several levels, disciplines and fees
FilterFiles == SeqsUpTo({RowAlgebra, RowCalculus, RowArt, RowBiology}, MaxRows)

\* one client uploading and one client listing courses under every filter
\* combination
NextFilter ==
  \/ \E f \in FilterFiles : UploadStart("u1", f, TRUE, MaxIngests)
  \/ UploadRows("u1", {FALSE})
  \/ \E q \in FilterParams : ReadLookup("r1", "courses", q, NoPrefs, FALSE)
  \/ ReadQuery("r1")
  \/ ReadStore("r1", FALSE)
  \/ ReadReset("r1")

SpecFilter == Init /\ [][NextFilter]_vars


\* the files whose cells need coercion
CoerceFiles == SeqsUpTo({RowAlgebra, RowBiology, RowBadScore, RowNoId}, MaxRows)

\* one client uploading rows whose cells are numbers, words or absent
NextCoerce ==
  \/ \E f \in CoerceFiles : UploadStart("u1", f, TRUE, MaxUploads)
  \/ UploadRows("u1", {FALSE})
  \/ UploadReset("u1", MaxUploads)
  \/ Tick

SpecCoerce == Init /\ [][NextCoerce]_vars


\* the listings requested while an upload runs
StaleParams == {NoParams, [NoParams EXCEPT !.courseLevel = "Undergraduate"]}

\* one client uploading and two clients listing courses, with a cache that is
\* reachable and never rejects a call
NextStale ==
  \/ \E f \in ReadFiles : UploadStart("u1", f, TRUE, MaxIngests)
  \/ StreamEnd("u1")
  \/ RowFind("u1")
  \/ RowWrite("u1")
  \/ UploadInvalidateKeys("u1", FALSE, FALSE)
  \/ UploadInvalidateDel("u1", FALSE, FALSE)
  \/ \E p \in Readers, q \in StaleParams : ReadLookup(p, "courses", q, NoPrefs, FALSE)
  \/ \E p \in Readers : ReadQuery(p)
  \/ \E p \in Readers : ReadStore(p, FALSE)
  \/ \E p \in Readers : ReadReset(p)

SpecStale == Init /\ [][NextStale]_vars


\* the files the browser uploads
ClientFiles == SeqsUpTo({RowAlgebra}, 1)

\* the browser's client logging in and out, calling the API and uploading
NextClient ==
  \/ \E s \in Slots, method \in Methods : ClientCall(s, method)
  \/ \E s \in Slots, outcome \in Outcomes, t \in IssuedTokens : ClientSettle(s, outcome, t)
  \/ \E f \in ClientFiles, lookupFails \in BOOLEAN :
       ClientUploadCourses("u1", f, lookupFails)
  \/ ClientUploadSettle("u1")

SpecClient == Init /\ [][NextClient]_vars

\* the cache client called directly
NextCache ==
  \/ \E op \in CacheOps, key \in ProbeKeys, cacheKey \in ProbeCacheKeys,
        value \in ProbeValues, fails \in BOOLEAN, failsDel \in BOOLEAN :
       CacheCall(op, key, cacheKey, value, fails, failsDel)
  \/ ProbeDisconnect
  \/ ProbeConnect

SpecCache == Init /\ [][NextCache]_vars

----------------------------------------------------------------------------
(* Properties *)

\* reader p's request arrives and its cache lookup returns
LookupStep(p) == rd[p].pc = "idle" /\ rd'[p].pc /= "idle"
\* reader p's cache write returns and the handler answers
StoreStep(p) == rd[p].pc = "store" /\ rd'[p].pc = "done"
\* the key of the request reader p is serving after the step
KeyAfter(p) == KeyOf(rd'[p].ep, rd'[p].q, rd'[p].prefs)
\* an upload handler takes a step
UploadStep == up' /= up

\* C1: cache-aside on the five cached endpoints.  A request whose key is not
\* cached takes the query path, and the answer it computes has fromCache =
\* false; a request for a key whose last computed answer is still cached (no
\* write to the collection, invalidation or expiry since) with the cache
\* reachable is answered at once, without a query, with that answer's payload
\* and fromCache = true.
CacheAsideStep ==
  \A p \in Readers :
    /\ (LookupStep(p) /\ KeyAfter(p) \notin DOMAIN cache) => rd'[p].pc = "query"
    /\ (LookupStep(p) /\ KeyAfter(p) \in DOMAIN hist.fresh /\ ~rd'[p].down) =>
         /\ rd'[p].pc = "done"
         /\ rd'[p].acc = <<>>
         /\ rd'[p].response =
              [status |-> 200,
               body |-> [hist.fresh[KeyAfter(p)] EXCEPT !.fromCache = TRUE]]
    /\ (StoreStep(p) /\ rd'[p].response.status = 200) =>
         /\ rd'[p].response.body.fromCache = FALSE
         /\ rd'[p].response.body = BuildResult(rd[p])
C1_CacheAside == [][CacheAsideStep]_vars

\* two identical requests, the first computed and the second served from the
\* cache with the same payload, over a collection that holds a course
C1_Witness ==
  /\ db /= <<>>
  /\ \E p, o \in Readers :
       /\ rd[p].pc = "done" /\ rd[o].pc = "done"
       /\ rd[p].ep = rd[o].ep /\ rd[p].q = rd[o].q /\ rd[p].prefs = rd[o].prefs
       /\ rd[p].response.status = 200 /\ rd[o].response.status = 200
       /\ rd[p].response.body.fromCache = FALSE
       /\ rd[o].response.body.fromCache = TRUE
       /\ rd[o].response.body = [rd[p].response.body EXCEPT !.fromCache = TRUE]

\* C2: after an upload has answered, the next GET /courses for a key that was
\* cached before the upload takes the query path instead of answering from the
\* cache.
C2_RecomputeAfterUploadStep ==
  \A p \in Readers :
    (LookupStep(p) /\ rd'[p].ep = "courses" /\ KeyAfter(p) \in hist.mustMiss) =>
      rd'[p].pc = "query"
C2_RecomputeAfterUpload == [][C2_RecomputeAfterUploadStep]_vars

\* C7: the cache is never needed for a right answer.  A request that finds the
\* cache unreachable is answered 200 with fromCache = false, and its answer is
\* the one a request computes with the cache reachable from the same
\* collection.
C7_CacheOptional ==
  \A p \in Readers :
    (rd[p].pc = "done" /\ rd[p].down) =>
      /\ rd[p].response.status = 200
      /\ rd[p].response.body.fromCache = FALSE
      /\ \A o \in Readers :
           (/\ rd[o].pc = "done" /\ ~rd[o].down /\ rd[o].acc /= <<>>
            /\ rd[o].ep = rd[p].ep /\ rd[o].q = rd[p].q /\ rd[o].prefs = rd[p].prefs
            /\ rd[o].vers = rd[p].vers) =>
             rd[o].response = rd[p].response

\* a request answered with the cache unreachable and the same request
\* computed with the cache reachable, over a collection that holds a course
C7_Witness ==
  /\ db /= <<>>
  /\ \E p, o \in Readers :
       /\ rd[p].pc = "done" /\ rd[p].down
       /\ rd[o].pc = "done" /\ ~rd[o].down /\ rd[o].acc /= <<>>
       /\ rd[o].ep = rd[p].ep /\ rd[o].q = rd[p].q /\ rd[o].prefs = rd[p].prefs
       /\ rd[o].vers = rd[p].vers /\ rd[p].vers[1] > 0

\* C8: a step of the upload handler removes or changes no cache entry outside
\* the courses: namespace, so statistics, popular courses, topics and
\* recommendations cached before an upload are served stale after it.
C8_UploadKeepsOtherKeysStep ==
  UploadStep =>
    \A key \in DOMAIN cache :
      key.ns /= CoursesNs => key \in DOMAIN cache' /\ cache'[key] = cache[key]
C8_UploadKeepsOtherKeys == [][C8_UploadKeepsOtherKeysStep]_vars

\* statistics served from the cache after a completed upload that inserted a
\* course, and no longer those of the collection
C8_Witness ==
  /\ up["u1"].pc = "done" /\ up["u1"].response.status = 200
  /\ up["u1"].inserts > 0
  /\ \E p \in Readers :
       /\ rd[p].pc = "done" /\ rd[p].ep = "stats"
       /\ rd[p].response.status = 200
       /\ rd[p].response.body.fromCache = TRUE
       /\ rd[p].response.body.summary /= StatsSummary(db)

\* upload u's write of the current row returns
WriteStep(u) == up[u].pc = "write" /\ up'[u] /= up[u]
\* upload u answers
FinishStep(u) == up[u].pc \in {"invalidate", "del"} /\ up'[u].pc = "done"

\* the stored document with d's uniqueId carries every field d defines
Persisted(coll, d) ==
  \E i \in 1..Len(coll) : coll[i].uniqueId = d.uniqueId /\ Merge(coll[i], d) = coll[i]

\* the id a row carries, Undefined when the id is generated
IdOf(row) == Or(row.uniqueId, row.course_id)

\* row i is the only row of the file with its id
OnlyRowWithItsId(f, i) ==
  \A j \in 1..Len(f) :
    j /= i => IdOf(f[j]) = Undefined \/ IdOf(f[j]) /= IdOf(f[i])

\* the rows of upload r that have an entry in its error list
FailedRows(r) == {r.errors[k].row : k \in 1..Len(r.errors)}

\* C3: row-error isolation.  A row whose write fails is appended to the error
\* list with its row number, a message and the raw row, changes nothing in the
\* collection and leaves successCount alone; a row that passes validation
\* never fails and a row that violates the update validators always does; the
\* loop goes on to the next row either way, so that successCount plus the
\* number of errors is the number of rows processed; and when the last row is
\* done every row without an error entry whose id no other row of the file
\* carries is persisted.
C3_RowIsolationStep ==
  \A u \in Uploaders :
    WriteStep(u) =>
      LET r == up[u]
          n == r.processedCount
          failed == Len(up'[u].errors) > Len(r.errors)
      IN /\ up'[u].pc = IF n < Len(r.results) THEN "find" ELSE "invalidate"
         /\ n < Len(r.results) => up'[u].processedCount = n + 1
         /\ failed =>
              /\ Len(up'[u].errors) = Len(r.errors) + 1
              /\ SubSeq(up'[u].errors, 1, Len(r.errors)) = r.errors
              /\ up'[u].errors[Len(r.errors) + 1].row = n
              /\ up'[u].errors[Len(r.errors) + 1].data = r.file[n]
              /\ up'[u].errors[Len(r.errors) + 1].error /= NoError
              /\ db' = db
              /\ up'[u].successCount = r.successCount
         /\ ~failed =>
              /\ up'[u].errors = r.errors
              /\ up'[u].successCount = r.successCount + 1
              /\ Persisted(db', r.courseData)
         /\ SaveError(r.courseData) = NoError => ~failed
         /\ UpdateError(r.courseData) /= NoError => failed
         /\ up'[u].successCount + Len(up'[u].errors) = n
         /\ n = Len(r.results) =>
              \A i \in 1..Len(r.file) :
                (i \notin FailedRows(up'[u]) /\ OnlyRowWithItsId(r.file, i)) =>
                  \E t \in 0..MaxClock : Persisted(db', CourseData(r.file[i], t, i))
C3_RowIsolation == [][C3_RowIsolationStep]_vars

\* a file of two rows answered with the first row in the error list and the
\* second persisted
C3_Witness ==
  \E u \in Uploaders :
    /\ up[u].pc = "done" /\ up[u].response.status = 200
    /\ Len(up[u].file) = 2
    /\ FailedRows(up[u]) = {1}
    /\ up[u].errors[1].data = up[u].file[1]
    /\ up[u].successCount = 1
    /\ \E t \in 0..MaxClock : Persisted(db, CourseData(up[u].file[2], t, 2))

\* C4: idempotence of ingestion.  When an upload of the file of the last
\* completed upload answers, the collection is the one that upload left, the
\* run has inserted no document, and the summary statistics are the same.
C4_IdempotentStep ==
  \A u \in Uploaders :
    (/\ FinishStep(u)
     /\ up'[u].response.status = 200
     /\ hist.lastRun /= NoRun
     /\ hist.lastRun.file = up[u].file) =>
       /\ db = hist.lastRun.db
       /\ up[u].inserts = 0
       /\ StatsSummary(db) = StatsSummary(hist.lastRun.db)
C4_Idempotent == [][C4_IdempotentStep]_vars

\* C5: no two stored courses have the same uniqueId.
C5_UniqueIds ==
  \A i, j \in 1..Len(db) : i /= j => db[i].uniqueId /= db[j].uniqueId

\* an upload lost the race for an id: its save was rejected by the index
C5_Witness ==
  \E u \in Uploaders : \E k \in 1..Len(up[u].errors) :
    up[u].errors[k].error = "E11000 duplicate key error"

BadRows(f) == {i \in 1..Len(f) : f[i] = RowBadLevel}
KthOf(S, k) == CHOOSE i \in S : Cardinality({x \in S : x <= i}) = k

\* C9: the upload's answer.  totalProcessed is the number of rows of the file,
\* successful the number of rows written, summary.errors the number of rows
\* that failed, and the errors list the entries of the first 10 failing rows
\* in row order.
C9_Summary ==
  \A u \in Uploaders :
    (up[u].pc = "done" /\ up[u].response.status = 200) =>
      LET f == up[u].file
          body == up[u].response.body
          k == Cardinality(BadRows(f))
      IN /\ body.summary.totalProcessed = Len(f)
         /\ body.summary.successful = Len(f) - k
         /\ body.summary.errors = k
         /\ Len(body.errors) = IF k <= 10 THEN k ELSE 10
         /\ \A j \in 1..Len(body.errors) :
              /\ body.errors[j] = up[u].errors[j]
              /\ body.errors[j].row = KthOf(BadRows(f), j)
              /\ body.errors[j].data = f[KthOf(BadRows(f), j)]

\* eleven rows failed and ten are listed
C9_Witness ==
  \E u \in Uploaders :
    /\ up[u].pc = "done" /\ up[u].response.status = 200
    /\ up[u].response.body.summary.errors = 11
    /\ Len(up[u].response.body.errors) = 10

\* C10: when a request that carried a file is over, the file is gone.
C10_FileDeleted ==
  \A u \in Uploaders :
    (up[u].hadFile /\ up[u].pc \in {"done", "aborted"}) => ~up[u].fileOnDisk

\* C11: GET /courses applies no page size outside 1..100: an answer with
\* courses has pagination.limit within 1..100 and at most 100 courses.
C11_LimitBounded ==
  \A p \in Readers :
    (rd[p].pc = "done" /\ rd[p].ep = "courses" /\ rd[p].response.status = 200) =>
      /\ rd[p].response.body.pagination.limit \in 1..100
      /\ Len(rd[p].response.body.courses) <= 100

\* reader p's GET /courses/:id is answered
ByIdStep(p) == rd[p].pc = "idle" /\ rd'[p].ep = "byId"

\* C12: GET /courses/:id answers 404 with an error body when the id is neither
\* the uniqueId nor the internal identifier of a stored course, whatever the
\* id's format, and 200 with the course when the id is a stored uniqueId.
C12_FindByIdStep ==
  \A p \in Readers :
    ByIdStep(p) =>
      LET id == rd'[p].id
          byKey == {i \in 1..Len(db) : db[i].uniqueId = id}
          byOid == {i \in 1..Len(db) : OidOf(i) = id}
      IN /\ (byKey = {} /\ byOid = {}) =>
              /\ rd'[p].response.status = 404
              /\ "error" \in DOMAIN rd'[p].response.body
         /\ byKey /= {} =>
              /\ rd'[p].response.status = 200
              /\ \E i \in byKey : rd'[p].response.body = [course |-> db[i]]
C12_FindById == [][C12_FindByIdStep]_vars

\* reader p's aggregate of GET /recommendations/popular returns
PopularQueryStep(p) ==
  rd[p].pc = "query" /\ rd[p].ep = "popular" /\ rd'[p].pc = "store"

\* the documented score: ranking (1000 when absent) minus acceptance rate (50
\* when absent) minus 100 for a partner course
DocumentedScore(d) ==
  IfNull(d.ftRanking2024, 1000) - IfNull(d.acceptanceRate, 50)
    - (IF d.partnerCourse THEN 100 ELSE 0)

\* the stored course with this uniqueId
CourseWithId(coll, id) == coll[CHOOSE i \in 1..Len(coll) : coll[i].uniqueId = id]

\* C13: the popular courses are the (at most 10) stored courses of lowest
\* documented score, in ascending order of that score.
C13_PopularOrderStep ==
  \A p \in Readers :
    PopularQueryStep(p) =>
      LET out == rd'[p].acc[1]
          ids == {out[j].id : j \in 1..Len(out)}
          score(id) == DocumentedScore(CourseWithId(db, id))
      IN /\ Len(out) = IF Len(db) <= 10 THEN Len(db) ELSE 10
         /\ \A j \in 1..(Len(out) - 1) : score(out[j].id) <= score(out[j + 1].id)
         /\ \A i \in 1..Len(db) :
              db[i].uniqueId \notin ids =>
                \A id \in ids : score(id) <= DocumentedScore(db[i])
C13_PopularOrder == [][C13_PopularOrderStep]_vars

\* the answers of POST /recommendations that carry recommendations
Recommended(p) ==
  rd[p].pc = "done" /\ rd[p].ep = "recommendations" /\ rd[p].response.status = 200

\* the documented month threshold of a duration preference
DocumentedThreshold(duration) ==
  CASE duration = "short" -> 12 [] duration = "medium" -> 18 [] duration = "long" -> 24

\* candidate c passes the documented duration filter
WithinDuration(c, duration) ==
  duration \in Durations => ParseMonths(c.duration) <= DocumentedThreshold(duration)

\* C14: with a maxTuition given (0 included), every entry of aiRecommendations
\* has tuition <= maxTuition, and every candidate of the pool with tuition <=
\* maxTuition that passes the duration filter is returned.
C14_TuitionFilter ==
  \A p \in Readers :
    (Recommended(p) /\ rd[p].prefs.maxTuition /= UndefinedNum) =>
      LET out == rd[p].response.body.aiRecommendations
          maxTuition == rd[p].prefs.maxTuition
      IN /\ \A j \in 1..Len(out) : out[j].tuition <= maxTuition
         /\ \A k \in 1..Len(MockCourses) :
              (/\ MockCourses[k].tuition <= maxTuition
               /\ WithinDuration(MockCourses[k], rd[p].prefs.duration)) =>
                \E j \in 1..Len(out) : out[j] = MockCourses[k]

\* C15: with duration short, medium or long, every entry of aiRecommendations
\* has a duration of at most 12, 18 or 24 months, every candidate of the pool
\* above the threshold is dropped, and without a tuition limit every candidate
\* within the threshold is returned.
C15_DurationFilter ==
  \A p \in Readers :
    (Recommended(p) /\ rd[p].prefs.duration \in Durations) =>
      LET out == rd[p].response.body.aiRecommendations
          threshold == DocumentedThreshold(rd[p].prefs.duration)
      IN /\ \A j \in 1..Len(out) : ParseMonths(out[j].duration) <= threshold
         /\ \A k \in 1..Len(MockCourses) :
              ParseMonths(MockCourses[k].duration) > threshold =>
                \A j \in 1..Len(out) : out[j] /= MockCourses[k]
         /\ rd[p].prefs.maxTuition = UndefinedNum =>
              \A k \in 1..Len(MockCourses) :
                ParseMonths(MockCourses[k].duration) <= threshold =>
                  \E j \in 1..Len(out) : out[j] = MockCourses[k]

\* duration short answered with the one candidate of 12 months
C15_Witness ==
  \E p \in Readers :
    /\ Recommended(p) /\ rd[p].prefs.duration = "short"
    /\ Len(rd[p].response.body.aiRecommendations) = 1
    /\ rd[p].response.body.aiRecommendations[1].duration = "12 months"

\* reader p's handler takes a step from an awaited query or generator call
QueryStep(p) == rd[p].pc = "query" /\ rd'[p] /= rd[p]

\* C17: an awaited repository query of a cached read handler either returns
\* its result or fails, and when it fails the request is answered 500 with an
\* error body, no further query is made and the cache is left as it is; a
\* request that has been answered does nothing more.
C17_QueryFailureStep ==
  \A p \in Readers :
    /\ QueryStep(p) =>
         \/ /\ rd'[p].acc = Append(rd[p].acc, RunQuery(rd[p], Len(rd[p].acc) + 1, db))
            /\ rd'[p].pc \in {"query", "store"}
         \/ /\ rd'[p].pc = "done"
            /\ rd'[p].response.status = 500
            /\ "error" \in DOMAIN rd'[p].response.body
            /\ rd'[p].acc = rd[p].acc
            /\ cache' = cache
    /\ rd[p].pc = "done" => rd'[p] = rd[p] \/ rd'[p] = IdleRead
PostStep(p) == rd[p].pc = "idle" /\ rd'[p].ep = "recommendations"

\* the body breaks a documented rule: topics a non-empty list of strings,
\* skillLevel and duration from their lists, maxTuition not negative
BreaksSchema(body) ==
  \/ body.topicsType /= "strings"
  \/ body.topics = <<>>
  \/ body.skillLevel /= Undefined /\ body.skillLevel \notin {"beginner", "intermediate", "advanced"}
  \/ body.duration /= Undefined /\ body.duration \notin {"short", "medium", "long"}
  \/ body.maxTuition /= UndefinedNum /\ body.maxTuition < 0

\* C18: a POST /recommendations with an invalid body is answered 400 with
\* messages at once: no cache read or write, no generator call and no query.
C18_InvalidBodyStep ==
  \A p \in Readers :
    (PostStep(p) /\ BreaksSchema(Body(rd'[p].topicsType, rd'[p].prefs))) =>
      /\ rd'[p].pc = "done"
      /\ rd'[p].response.status = 400
      /\ rd'[p].response.body.details /= <<>>
      /\ rd'[p].acc = <<>>
      /\ cache' = cache
      /\ hist' = hist
C18_InvalidBody == [][C18_InvalidBodyStep]_vars

\* a negative maxTuition answered 400
C18_Witness ==
  \E p \in Readers :
    /\ rd[p].pc = "done" /\ rd[p].ep = "recommendations"
    /\ rd[p].prefs.maxTuition < 0 /\ rd[p].prefs.maxTuition /= UndefinedNum
    /\ rd[p].response.status = 400

\* a and b hold the same strings the same number of times
IsPermutation(a, b) ==
  /\ Len(a) = Len(b)
  /\ \A x \in SeqRange(a) \cup SeqRange(b) :
       Cardinality({i \in 1..Len(a) : a[i] = x}) = Cardinality({i \in 1..Len(b) : b[i] = x})

\* the preferences differ in the order of their topics at most
SameUpToOrder(a, b) ==
  /\ IsPermutation(a.topics, b.topics)
  /\ a.skillLevel = b.skillLevel /\ a.duration = b.duration
  /\ a.maxTuition = b.maxTuition

\* C20: a POST /recommendations whose topics are a permutation of those of an
\* answered request uses that request's cache key, and while the entry that
\* request wrote is in the cache it is answered from it with the same payload.
C20_TopicsOrderStep ==
  \A p, o \in Readers :
    (/\ p /= o
     /\ PostStep(o) /\ rd'[o].response.status /= 400
     /\ Recommended(p) /\ ~rd[p].response.body.fromCache
     /\ SameUpToOrder(rd[p].prefs, rd'[o].prefs)) =>
       /\ KeyAfter(o) = KeyOf("recommendations", NoParams, rd[p].prefs)
       /\ (/\ KeyAfter(o) \in DOMAIN hist.fresh
           /\ hist.fresh[KeyAfter(o)] = rd[p].response.body) =>
            /\ rd'[o].pc = "done"
            /\ rd'[o].response =
                 [status |-> 200,
                  body |-> [rd[p].response.body EXCEPT !.fromCache = TRUE]]
C20_TopicsOrder == [][C20_TopicsOrderStep]_vars

\* the topics in one order computed, in the other order answered from the
\* cache with the same courses
C20_Witness ==
  \E p, o \in Readers :
    /\ Recommended(p) /\ Recommended(o)
    /\ rd[p].prefs.topics /= rd[o].prefs.topics
    /\ SameUpToOrder(rd[p].prefs, rd[o].prefs)
    /\ ~rd[p].response.body.fromCache /\ rd[o].response.body.fromCache
    /\ rd[p].response.body.databaseCourses /= <<>>
    /\ rd[o].response.body = [rd[p].response.body EXCEPT !.fromCache = TRUE]

\* a call of the document store made for upload u fails
StoreFailureStep(u) == up'[u].storeFailures = up[u].storeFailures + 1

\* C16: when the document store fails during a batch, the rows that remain are
\* not processed and the request is answered 500.
C16_StoreFailureAbortsStep ==
  \A u \in Uploaders :
    StoreFailureStep(u) =>
      /\ up'[u].pc = "done"
      /\ up'[u].response.status = 500
C16_StoreFailureAborts == [][C16_StoreFailureAbortsStep]_vars

\* a POST /upload of client u arrives
RequestStep(u) == up[u].pc = "idle" /\ up'[u].pc /= "idle"

\* C19: a POST /upload without the token of an active admin is answered 401
\* (500 when the lookup of the admin itself fails), stores no file, and changes
\* neither the collection nor the cache, at once or later.
C19_AdminOnlyStep ==
  \A u \in Uploaders :
    /\ (RequestStep(u) /\ up'[u].token /= "admin") =>
         /\ up'[u].pc = "done"
         /\ \/ up'[u].response.status = 401
            \/ /\ up'[u].token \in {"unknownAdmin", "inactiveAdmin"}
               /\ up'[u].response =
                    [status |-> 500,
                     body |-> [error |-> "Internal server error during authentication."]]
         /\ ~up'[u].fileOnDisk
         /\ db' = db
         /\ cache' = cache
    /\ (up[u].pc = "done" /\ up[u].token /= "admin") =>
         up'[u] = up[u] \/ up'[u] = IdleUpload
Satisfies(q, d) ==
  /\ q.courseLevel /= Undefined => d.courseLevel = q.courseLevel
  /\ q.disciplineMajor /= Undefined => d.disciplineMajor = q.disciplineMajor
  /\ q.minTuition /= Undefined => NumLit[q.minTuition] <= d.firstYearTuitionFee
  /\ q.maxTuition /= Undefined => d.firstYearTuitionFee <= NumLit[q.maxTuition]

NumSatisfying(coll, q) == Cardinality({i \in 1..Len(coll) : Satisfies(q, coll[i])})

\* reader p runs the k-th query of GET /courses
ListingQueryStep(p, k) ==
  /\ rd[p].pc = "query" /\ rd[p].ep = "courses"
  /\ Len(rd[p].acc) = k - 1 /\ Len(rd'[p].acc) = k

\* C21: for every filter combination the total of GET /courses is the number
\* of stored courses that satisfy the conjunction of the filters, whatever the
\* page and the page size, and every returned course satisfies the conjunction.
C21_TotalMatchesFiltersStep ==
  \A p \in Readers :
    /\ ListingQueryStep(p, 1) =>
         \A i \in 1..Len(rd'[p].acc[1]) : Satisfies(rd[p].q, rd'[p].acc[1][i])
    /\ ListingQueryStep(p, 2) =>
         /\ rd'[p].acc[2] = NumSatisfying(db, rd[p].q)
         /\ \A q \in FilterCombinations :
              (\A f \in {"courseLevel", "disciplineMajor", "minTuition", "maxTuition"} :
                 q[f] = rd[p].q[f])
              => CountCourses(db, q) = rd'[p].acc[2]
    /\ (rd[p].pc = "store" /\ rd[p].ep = "courses" /\ rd'[p].pc = "done"
          /\ rd'[p].response.status = 200) =>
         /\ rd'[p].response.body.pagination.total = rd[p].acc[2]
         /\ rd'[p].response.body.courses = rd[p].acc[1]
ScoreFields == {"ftRanking2024", "acceptanceRate"}

\* C22: on upload a numeric field that does not parse becomes 0, an optional
\* score field that does not parse becomes undefined, so that it never makes
\* the row fail, and a boolean field is true only for the string true.
C22_RowCoercion ==
  \A u \in Uploaders :
    /\ up[u].pc \in {"find", "write"} =>
         LET row == up[u].results[up[u].processedCount]
             d == up[u].courseData
         IN /\ (ParseNum(row.firstYearTuitionFee) = NaN /\ ParseNum(row.tuition) = NaN)
                 => d.firstYearTuitionFee = 0
            /\ \A f \in ScoreFields : ParseNum(row[f]) = NaN => d[f] = UndefinedNum
            /\ d.partnerCourse = (row.partnerCourse = "true")
    /\ \A i \in 1..Len(up[u].errors) :
         up[u].errors[i].error /= "Cast to Number failed"

\* the key reader p reads and writes, and the value it is about to write
KeyOfReader(p) == KeyOf(rd[p].ep, rd[p].q, rd[p].prefs)
ValueOfReader(p) == StoredValue(rd[p].ep, BuildResult(rd[p]))

\* C23: two concurrent readers that both missed the cache for the same key
\* have each queried the repository, and the values they are about to write
\* to the entry are the same.
C23_BenignRace ==
  \A p, p2 \in Readers :
    (/\ p /= p2
     /\ rd[p].pc = "store" /\ rd[p2].pc = "store"
     /\ KeyOfReader(p) = KeyOfReader(p2))
    => /\ Len(rd[p].acc) = NQueries(rd[p].ep) /\ Len(rd[p2].acc) = NQueries(rd[p2].ep)
       /\ ValueOfReader(p) = ValueOfReader(p2)

\* an answer of POST /recommendations computed on a miss
Computed(p) ==
  /\ Recommended(p)
  /\ ~rd[p].response.body.fromCache

\* C24: recommendation assembly is deterministic and free of side effects: two
\* requests with equal preferences computed from the same collection have equal
\* payloads, aiRecommendations holds at most 5 distinct entries of the fixed
\* pool in descending order of matchScore, and the topics of the request stay
\* as they were received.
C24_Deterministic ==
  /\ \A p, p2 \in Readers :
       (Computed(p) /\ Computed(p2) /\ rd[p].prefs = rd[p2].prefs
          /\ rd[p].vers = rd[p2].vers)
       => rd[p].response.body = rd[p2].response.body
  /\ \A p \in Readers :
       Computed(p) =>
         LET ai == rd[p].response.body.aiRecommendations
         IN /\ Len(ai) <= 5
            /\ \A i \in 1..Len(ai) : ai[i] \in SeqRange(MockCourses)
            /\ \A i, j \in 1..Len(ai) : i < j => ai[i].matchScore > ai[j].matchScore
  /\ \A p \in Readers :
       (rd[p].ep = "recommendations" /\ rd[p].pc /= "idle")
       => rd[p].topicsNow = rd[p].prefs.topics

\* the value GET /courses computes for q from the collection as it is now
FreshListing(q) ==
  StoredValue("courses", CoursesResult(q, FindCourses(db, q), CountCourses(db, q)))

\* C25: once an upload has answered and no read request is in flight, every
\* cached courses: entry holds the payload of the collection as the upload
\* left it: a reader that queried before a row was written does not store its
\* result after the upload's invalidation.
C25_NoStaleEntry ==
  (/\ \E u \in Uploaders : up[u].pc = "done" /\ up[u].response.status = 200
   /\ \A p \in Readers : rd[p].pc \in {"idle", "done"})
  => \A q \in StaleParams :
       LET key == KeyOf("courses", q, NoPrefs)
       IN key \in DOMAIN cache => cache[key] = FreshListing(q)

NamespaceOf(ep) ==
  CASE ep = "courses" -> CoursesNs
    [] ep = "recommendations" -> RecommendationsNs
    [] OTHER -> FixedNs

\* reader p is answered from the cache
HitStep(p) ==
  /\ rd[p].pc = "idle" /\ rd'[p].pc = "done"
  /\ rd'[p].response.status = 200
  /\ "fromCache" \in DOMAIN rd'[p].response.body
  /\ rd'[p].response.body.fromCache

\* C27: a request of GET /courses or POST /recommendations answered with
\* fromCache = true receives the payload an earlier request stored for
\* parameters equal to its own (the listing parameters, or the sorted topics
\* with skillLevel, duration and maxTuition), and every cached entry lies in
\* the namespace of the endpoint that computed it.
C27_HitSameParamsStep ==
  /\ \A p \in Readers :
       (HitStep(p) /\ rd'[p].ep \in {"courses", "recommendations"}) =>
         LET key == KeyOf(rd'[p].ep, rd'[p].q, rd'[p].prefs)
         IN /\ key \in DOMAIN cache /\ key \in DOMAIN hist.origin
            /\ key.ns = NamespaceOf(rd'[p].ep)
            /\ hist.origin[key] = ParamsOf(rd'[p])
            /\ rd'[p].response.body = HitBody(rd'[p].ep, cache[key])
  /\ \A key \in DOMAIN cache :
       key \in DOMAIN hist.origin => key.ns = NamespaceOf(hist.origin[key].ep)
C28_AlwaysAnswered ==
  \A u \in Uploaders :
    up[u].pc \in {"done", "aborted"} => up[u].response /= NoResponse

\* a call of the client finishes in this step
ClientSettleStep ==
  \/ \E s \in Slots : client.calls[s].pc = "waiting" /\ client'.calls[s].pc = "idle"
  \/ \E u \in Uploaders : up[u].pc = "done" /\ up'[u].pc = "idle"

\* the client's field and localStorage hold no token
TokenCleared(c) == c.token = "none" /\ c.storage = "none"

\* C29: the API client's token.  After a login or signup that succeeded the
\* stored token is the one the server returned; after a request answered 401
\* it is cleared; after logout it is cleared whether the request succeeded or
\* failed; and a request sent while no token is stored carries no
\* Authorization header (one sent with a token stored carries that token).
C29_TokenStateStep ==
  /\ ClientSettleStep =>
       LET l == client'.last
       IN /\ (l.method \in {"login", "signup"} /\ l.outcome = "ok") =>
               client'.token = l.token /\ client'.storage = l.token
          /\ l.outcome = "unauthorized" => TokenCleared(client')
          /\ l.method = "logout" => TokenCleared(client')
  /\ \A s \in Slots :
       (client.calls[s].pc = "idle" /\ client'.calls[s].pc = "waiting") =>
         /\ TokenCleared(client) =>
              "Authorization" \notin DOMAIN client'.calls[s].headers
         /\ ~TokenCleared(client) =>
              BearerOf(client'.calls[s].headers) = client.token
  /\ client'.token = client'.storage
C29_TokenState == [][C29_TokenStateStep]_vars

\* a logout whose request failed, after a login had stored a token, with the
\* token cleared
C29_Witness ==
  /\ client.last.method = "logout" /\ client.last.outcome \in {"error", "rejected"}
  /\ TokenCleared(client)
  /\ \E s \in Slots :
       client.calls[s].pc = "waiting" /\ BearerOf(client.calls[s].headers) = "admin"

\* C30: uploadCourses sends its FormData without a Content-Type of its own:
\* the headers of the request contain no Content-Type application/json, so an
\* admin's upload with a file is not answered No CSV file uploaded.
C30_UploadHeadersStep ==
  \A u \in Uploaders :
    RequestStep(u) =>
      LET headers == RequestHeaders(client.token, UploadOptionHeaders)
      IN /\ ~("Content-Type" \in DOMAIN headers
              /\ headers["Content-Type"] = "application/json")
         /\ up'[u].token = "admin" =>
              up'[u].response /=
                [status |-> 400, body |-> [error |-> "No CSV file uploaded"]]
C30_UploadHeaders == [][C30_UploadHeadersStep]_vars

====
